---- MODULE Spec2Model ----
(***************************************************************************)
(* Runtime identifiers of pui: an id allocator (an atomic counter over a   *)
(* Scalar), the global id pools (stack, queue, one) and the Runtime        *)
(* identifier that takes an id on creation and returns it on drop.         *)
(* Type identifiers of pui: the flags behind make_typeid (OnceFlag,        *)
(* ResettableOnceFlag with and without std) and make_typeid_tl             *)
(* (LocalOnceFlag), and the thread-local id allocator.                     *)
(***************************************************************************)
EXTENDS Integers, Sequences, FiniteSets, TLC

(* ------------------------------ bounds --------------------------------- *)
\* threads that create and drop Runtimes concurrently
NThreads == 2
\* ids a behaviour draws from an allocator that begins at its initial value
MaxIds == 3
\* ids an allocator has left when a behaviour begins near the end of its
\* counter
MaxLeft == 1
\* ids a behaviour draws in which the thread_local pools are used too
MaxTlIds == 2
\* creations and drops of a sequential run
MaxEvents == 6
\* drops of Type<T> in one behaviour
MaxLives == 2
\* ids a thread draws from its thread-local allocator
MaxLocalIds == 6

\* the size of the ThreadGroup: Packet::size
GroupSize == 2

Threads == 1..NThreads

(* ----------------------- Option, as the code uses it -------------------- *)
None == <<>>
Some(x) == <<x>>
is_some(o) == Len(o) = 1
is_none(o) == Len(o) = 0
unwrap(o) == o[1]

(* ------------------------------ Scalar ---------------------------------- *)
\* u8::MAX, the overflow point of checked_add on the u8 counter
U8_MAX == 255
\* <u8>::MIN, the initial value of the u8 counter
U8_MIN == 0

\* the backing scalars modelled: `()` (one id) and u8
Scalars == {"unit", "u8"}

\* Scalar::INIT_ATOMIC
INIT_ATOMIC(sc) == IF sc = "unit" THEN TRUE ELSE U8_MIN

\* the only value of `()`
UnitId == "()"

\* checked_add that adds nothing
checked_add_zero(value) == Some(value)

\* checked_add that gives up one value early
checked_add_early(value) == IF value + 1 >= U8_MAX THEN None ELSE Some(value + 1)

\* an addition that wraps around instead of reporting the overflow
wrapping_add(value) == Some((value + 1) % (U8_MAX + 1))

\* checked_add that steps over a value
checked_add_two(value) == IF value + 2 > U8_MAX THEN None ELSE Some(value + 2)

\* u8::checked_add(value, 1)
checked_add(value) == IF value + 1 > U8_MAX THEN None ELSE Some(value + 1)

\* num!'s `$max` of the plain integer scalars
NumMax == None

\* the bounds test of inc_local / inc_atomic
is_out_of_bounds(next, max) ==
    IF is_none(next) THEN TRUE
    ELSE IF is_none(max) THEN FALSE
    ELSE unwrap(next) >= unwrap(max)

\* num!'s `$convert` of the plain integer scalars: x -> x
convert(x) == x

(* ------------------------------ InitFlag -------------------------------- *)
EMPTY == 0        \* 0b00
READING == 1      \* 0b01
WRITING == 2      \* 0b10
FULL == 3         \* 0b11

(* ------------------------------- state ---------------------------------- *)
VARIABLES
    scalar,     \* the backing Scalar of the allocator
    pools,      \* the pool types the program uses with the allocator
    next_id,    \* make_runtime_NEXT_ID: the allocator's atomic
    stack,      \* make_global_REUSE of the stack pool (Mutex<Vec<_>>)
    queue,      \* make_global_REUSE of the queue pool (Mutex<VecDeque<_>>)
    flag,       \* make_global_option_pool: the InitFlag of the one pool
    slot,       \* make_global_SINGLE_REUSE_ITEM of the one pool
    pc,         \* where each thread is
    loc,        \* the locals of the call each thread is in
    live,       \* the Runtimes that exist
    loose,      \* the RuntimeIds the program holds, got from Pool::take
    done,       \* history: the creation that ended in the last step, if any
    used,       \* history: the ids the allocator has handed out so far
    handles,    \* history: the ids handed out since the program began, of
                \* which the program can hold a handle
    ret,        \* history: the ids in each global pool, in the order of their
                \* return
    tracing,    \* history: whether log is kept
    log,        \* history: the creations and drops, in order
    alive_max,  \* history: the most Runtimes alive at once, where counted
    \* make_typeid: a type T and a once type, declared once each
    std,        \* the build: feature "std", or "atomic" without std
    locked,     \* make_typeid_FLAG of T: `locked` (std), field 0 (no std)
    once,       \* ResettableOnceFlag::once has run (std)
    mutex,      \* the thread that holds ResettableOnceFlag::mutex (std)
    cv,         \* the threads that wait on ResettableOnceFlag::cv (std)
    once_flag,  \* make_typeid_FLAG of the once type: the OnceFlag
    tpc,        \* where each thread is in a call of make_typeid's methods
    saw,        \* history: an instance existed when the thread's call began
    held,       \* the instances of Type<T> each thread holds
    held_once,  \* the instances of the once type each thread holds
    made_once,  \* history: the instances of the once type made so far
    lives,      \* history: the drops of Type<T>, and whether one was the
                \* last thing that happened to T
    tdone,      \* history: the call that ended in the last step, if any
    \* make_typeid_tl: a type T and a once type, declared once each
    tl_flag,    \* make_typeid_tl_FLAG of T, of each thread
    tl_once,    \* make_typeid_tl_FLAG of the once type, of each thread
    tl_held,    \* the instances of Type<T> each thread holds
    tl_held_once,   \* the instances of the once type each thread holds
    tl_made_once,   \* history: the instances of the once type each thread made
    tl_dropped, \* history: the thread dropped its Type<T> and has not
                \* created one since
    tl_done,    \* history: the call that ended in the last step, if any
    \* make_global_id_alloc_tl
    local_scalar,   \* the backing Scalar of the thread-local allocator
    local_next, \* make_runtime_NEXT_ID of each thread: the Cell
    got,        \* history: the ids each thread received, in order
    al_done,    \* history: the try_alloc that ended in the last step, if any
    \* make_global_pool, thread_local: the pools of each thread
    local_stack,    \* make_global_REUSE of the thread_local stack pool
    local_queue,    \* make_global_REUSE of the thread_local queue pool
    local_slot,     \* make_global_SINGLE_REUSE_ITEM of the thread_local one pool
    put_by,     \* history: the thread that last returned each id to a
                \* thread_local pool
    \* test_setup: a ThreadGroup
    tg_threads, \* Packet::threads, the ThreadInfo of each spawned thread
    tg_pc,      \* where each thread of the group is in its closure
    tg_out,     \* history: how the closure `f` of each thread ended
    tg_drop,    \* where the owner of the ThreadGroup is in its drop
    tg_mutex,   \* the thread that holds the Mutex of Packet::threads
    tg_poisoned \* the Mutex is poisoned: its guard was dropped by a panic

\* the state of make_typeid
typeid_vars == <<std, locked, once, mutex, cv, once_flag, tpc, saw, held,
                 held_once, made_once, lives, tdone>>

\* the state of make_typeid_tl
typeid_tl_vars == <<tl_flag, tl_once, tl_held, tl_held_once, tl_made_once,
                    tl_dropped, tl_done>>

\* the state of make_global_id_alloc_tl
alloc_tl_vars == <<local_scalar, local_next, got, al_done>>

\* the state of the thread_local pools
local_pool_vars == <<local_stack, local_queue, local_slot, put_by>>

\* the state of the ThreadGroup of test_setup
thread_group_vars == <<tg_threads, tg_pc, tg_out, tg_drop, tg_mutex, tg_poisoned>>

\* the state of the identifiers and allocators that are not those of the
\* global Runtimes
other_ids == <<typeid_vars, typeid_tl_vars, alloc_tl_vars, local_pool_vars,
               thread_group_vars>>

\* the state that make_typeid leaves alone
not_typeid == <<scalar, pools, next_id, stack, queue, flag, slot, pc, loc,
                live, loose, done, used, handles, ret, tracing, log, alive_max,
                typeid_tl_vars, alloc_tl_vars, local_pool_vars,
                thread_group_vars>>

\* the state of the Runtimes, their allocator and their pools
runtime_vars == <<scalar, pools, next_id, stack, queue, flag, slot, pc, loc,
                  live, loose, done, used, handles, ret, tracing, log, alive_max>>

\* the state that the ThreadGroup leaves alone
not_thread_group == <<runtime_vars, typeid_vars, typeid_tl_vars, alloc_tl_vars,
                      local_pool_vars>>

\* the state that make_typeid_tl leaves alone
not_typeid_tl == <<runtime_vars, typeid_vars, alloc_tl_vars, local_pool_vars,
                   thread_group_vars>>

\* the state that make_global_id_alloc_tl leaves alone
not_alloc_tl == <<runtime_vars, typeid_vars, typeid_tl_vars, local_pool_vars,
                  thread_group_vars>>

vars == <<runtime_vars, other_ids>>

Pools == {"none", "stack", "queue", "one"}

\* the global pools that keep ids
Kept == Pools \ {"none"}
Modes == {"try", "panic"}

\* the calls of IdAlloc::try_next and IdAlloc::next that a program makes
\* itself
AllocModes == {"try_next", "next"}

\* the locals of a thread that is in no call. value: the counter value
\* loaded; item: the id read from or written to the slot of the one pool;
\* history: pre, the flag of the one pool when a logged call reached it;
\* hadId, the pool held an id when the call began; exhTake, it did and
\* the allocator was exhausted; asked, the call has reached the counter
NoLoc == [pool |-> "none", mode |-> "try", value |-> None, item |-> None,
          pre |-> EMPTY, hadId |-> FALSE, exhTake |-> FALSE, asked |-> FALSE]

NoDone == [res |-> "-", pool |-> "none", mode |-> "try", src |-> "-",
           id |-> None, from |-> <<>>, hadId |-> FALSE, exhTake |-> FALSE,
           asked |-> FALSE, exhausted |-> FALSE]

\* the allocator has no id left: the flag of `()` is taken, the u8 counter
\* stands at u8::MAX
Exhausted == IF scalar = "unit" THEN next_id = FALSE ELSE next_id = U8_MAX

\* the counter of a u8 allocator when the program begins: at its initial
\* value, or MaxLeft before the end, after ids were handed out of which the
\* program has kept none
Starts == {U8_MIN, U8_MAX - MaxLeft}

(* --------------- initial state of the other identifiers ----------------- *)
\* no call of make_typeid's methods ended in the last step
NoTDone == [op |-> "-", mode |-> "try", t |-> None, res |-> "-",
            existed |-> FALSE, after_drop |-> FALSE]

\* ResettableOnceFlag::new: `locked: AtomicBool::new(false)` with std,
\* `Self(AtomicBool::new(true))` without
ResettableOnceFlag_new(with_std) == IF with_std THEN FALSE ELSE TRUE

\* OnceFlag::new
OnceFlag_new == TRUE

\* the statics of make_typeid before any call, in the build with_std
InitTypeid(with_std) ==
    /\ std = with_std
    /\ locked = ResettableOnceFlag_new(with_std)
    /\ once = FALSE
    /\ mutex = None
    /\ cv = {}
    /\ once_flag = OnceFlag_new
    /\ tpc = [t \in Threads |-> "idle"]
    /\ saw = [t \in Threads |-> FALSE]
    /\ held = [t \in Threads |-> 0]
    /\ held_once = [t \in Threads |-> 0]
    /\ made_once = 0
    /\ lives = [n |-> 0, dropped |-> FALSE]
    /\ tdone = NoTDone

\* LocalOnceFlag::new
LocalOnceFlag_new == TRUE

\* no call of make_typeid_tl's methods ended in the last step
NoTlDone == [op |-> "-", mode |-> "try", t |-> None, res |-> "-",
             after_drop |-> FALSE]

\* the thread-local statics of make_typeid_tl before any call
InitTypeidTl ==
    /\ tl_flag = [t \in Threads |-> LocalOnceFlag_new]
    /\ tl_once = [t \in Threads |-> LocalOnceFlag_new]
    /\ tl_held = [t \in Threads |-> 0]
    /\ tl_held_once = [t \in Threads |-> 0]
    /\ tl_made_once = [t \in Threads |-> 0]
    /\ tl_dropped = [t \in Threads |-> FALSE]
    /\ tl_done = NoTlDone

\* Scalar::INIT_LOCAL
INIT_LOCAL(sc) == IF sc = "unit" THEN TRUE ELSE U8_MIN

\* no try_alloc ended in the last step
NoAlDone == [t |-> None, mode |-> "try", res |-> "-", id |-> None]

\* the thread-local counters of make_global_id_alloc_tl over the scalar
\* sc before any call
InitAllocTl(sc) ==
    /\ local_scalar = sc
    /\ local_next = [t \in Threads |-> INIT_LOCAL(sc)]
    /\ got = [t \in Threads |-> <<>>]
    /\ al_done = NoAlDone

\* the thread_local pools before any call: `UnsafeCell::default()`,
\* `Cell::default()`
InitLocalPools ==
    /\ local_stack = [t \in Threads |-> <<>>]
    /\ local_queue = [t \in Threads |-> <<>>]
    /\ local_slot = [t \in Threads |-> None]
    /\ put_by = {}

\* the threads of a ThreadGroup: the thread of id i is member i + 1
Members == 1..GroupSize

\* the thread that owns the ThreadGroup and drops it
Owner == GroupSize + 1

\* ThreadGroup::new(size): no thread is spawned, `Vec::with_capacity(size)`
InitGroup ==
    /\ tg_threads = <<>>
    /\ tg_pc = [i \in Members |-> "unspawned"]
    /\ tg_out = [i \in Members |-> "-"]
    /\ tg_drop = "own"
    /\ tg_mutex = None
    /\ tg_poisoned = FALSE

\* a program without a ThreadGroup
NoGroup ==
    /\ tg_threads = <<>>
    /\ tg_pc = [i \in Members |-> "unspawned"]
    /\ tg_out = [i \in Members |-> "-"]
    /\ tg_drop = "none"
    /\ tg_mutex = None
    /\ tg_poisoned = FALSE

\* a program that declares no other identifier than Runtimes
NoOtherIds ==
    /\ InitTypeid(FALSE) /\ InitTypeidTl /\ InitAllocTl("unit") /\ InitLocalPools
    /\ NoGroup

InitWith(sc, ps, start, tr) ==
    /\ scalar = sc
    /\ pools = ps
    /\ next_id = IF sc = "unit" THEN INIT_ATOMIC(sc) ELSE start
    /\ stack = <<>>
    /\ queue = <<>>
    /\ flag = EMPTY
    /\ slot = None
    /\ pc = [t \in Threads |-> "idle"]
    /\ loc = [t \in Threads |-> NoLoc]
    /\ live = {}
    /\ loose = {}
    /\ done = NoDone
    /\ used = IF sc = "unit" THEN {} ELSE {convert(x) : x \in INIT_ATOMIC(sc)..(start - 1)}
    /\ handles = {}
    /\ ret = [p \in Kept |-> <<>>]
    /\ tracing = tr
    /\ log = <<>>

Init ==
    /\ \E sc \in Scalars, start \in Starts : InitWith(sc, Pools, start, FALSE)
    /\ alive_max = None
    /\ NoOtherIds

(* ------------------------- history bookkeeping -------------------------- *)
\* a creation or a drop of the Runtime r. how: where the id came from
\* ("pool", "alloc"), or what became of it ("kept", "lost"); pre: the flag of
\* the one pool when the call reached it
Event(op, r, h, how, pre) ==
    [op |-> op, id |-> r.id, h |-> h, pool |-> r.pool, how |-> how, pre |-> pre]

Logged(e) == IF tracing THEN Append(log, e) ELSE log

Remove(s, x) == SelectSeq(s, LAMBDA y : y # x)

\* threads on their way to the allocator
Allocating == {t \in Threads : pc[t] \in {"try_next", "cas"}}

\* the Runtimes alive: those that exist and those a thread is creating or
\* dropping (a Runtime is alive from the start of its creation to the end
\* of its drop); a thread inside Pool::take, Pool::try_put or a try_next
\* of the program has no Runtime in hand
Alive == Cardinality(live)
           + Cardinality({t \in Threads : pc[t] # "idle" /\ loc[t].mode \in Modes \cup {"drop"}})

\* the count of Runtimes alive at once rises to n, where it is counted
Raise(m, n) == IF is_none(m) THEN None
               ELSE IF n > unwrap(m) THEN Some(n) ELSE m

(* ------------------------------ Runtime --------------------------------- *)
\* Runtime { id, pool }. nr tells the Runtimes that exist apart; h
\* (history) is the handle the Runtime had when its life began
Runtime(nr, id, p) == [nr |-> nr, id |-> id, pool |-> p, h |-> None,
                       home |-> None]

\* the pools declared `thread_local`
TlPools == {"tl_stack", "tl_queue", "tl_one"}

\* the thread a Runtime with the pool p is bound to when thread t creates
\* it: the thread_local pool types hold a PhantomData<ThreadLocal>, which
\* is neither Send nor Sync
Home(t, p) == IF p \in TlPools THEN Some(t) ELSE None

NewNr(id) == CHOOSE n \in 1..(Cardinality(live) + 1) : \A r \in live : r.id = id => r.nr # n

\* Runtime::handle
handle(r) == r.id

\* owns with the comparison inverted
owns_ne(r, h) == r.id # h

\* an owns that accepts no handle
owns_never(r, h) == FALSE

\* Identifier::owns of Runtime
owns(r, h) == r.id = h

\* PartialEq of Runtime
runtime_eq(a, b) == a.id = b.id

\* PartialEq of RuntimeHandle
handle_eq(a, b) == a = b

\* the call of thread t ends with the id: a constructor (me.mode in Modes)
\* returns `Some(Runtime { id, pool })`, Pool::take returns
\* `Some(RuntimeId(id))` to the program, IdAlloc::try_next and next return
\* the id
Finish(t, id, src, me) ==
    LET r0 == Runtime(NewNr(id), id, me.pool)
        r == [r0 EXCEPT !.home = Home(t, me.pool), !.h = Some(handle(r0))]
        kept == src = "pool" /\ me.pool \in Kept
    IN
    /\ live' = IF me.mode \in Modes THEN live \cup {r} ELSE live
    /\ loose' = IF me.mode = "take" THEN loose \cup {id} ELSE loose
    /\ used' = IF me.mode = "take" THEN used ELSE used \cup {id}
    /\ handles' = IF me.mode = "take" THEN handles ELSE handles \cup {id}
    /\ ret' = IF kept THEN [ret EXCEPT ![me.pool] = Remove(@, id)] ELSE ret
    /\ log' = Logged(Event(IF me.mode \in Modes THEN "create" ELSE me.mode,
                           r, handle(r), src, me.pre))
    /\ done' = [res |-> "ok", pool |-> me.pool, mode |-> me.mode, src |-> src,
                id |-> Some(id), from |-> IF kept THEN ret[me.pool] ELSE <<>>,
                hadId |-> me.hadId, exhTake |-> me.exhTake, asked |-> me.asked,
                exhausted |-> FALSE]
    /\ pc' = [pc EXCEPT ![t] = "idle"]
    /\ loc' = [loc EXCEPT ![t] = NoLoc]

\* the call of thread t ends without an id: `id_alloc.try_next()?` yields
\* None, so the try_ constructors and try_next return None and the others
\* panic in `expect`; or Pool::take returns None
Fail(t, me) ==
    /\ done' = [res |-> IF me.mode \in {"panic", "next"} THEN "panic" ELSE "None",
                pool |-> me.pool, mode |-> me.mode, src |-> "-", id |-> None,
                from |-> <<>>, hadId |-> me.hadId, exhTake |-> me.exhTake,
                asked |-> me.asked, exhausted |-> Exhausted]
    /\ pc' = [pc EXCEPT ![t] = "idle"]
    /\ loc' = [loc EXCEPT ![t] = NoLoc]
    /\ UNCHANGED <<live, loose, used, handles, ret, log>>

(* ------------------------------- pools ---------------------------------- *)
\* a pop that leaves the id in the Vec
pop_peek(v) == IF Len(v) = 0 THEN [out |-> None, rest |-> v]
               ELSE [out |-> Some(v[Len(v)]), rest |-> v]

\* a pop that never finds an element
pop_none(v) == [out |-> None, rest |-> v]

\* a pop that takes the oldest element
pop_first(v) == IF Len(v) = 0 THEN [out |-> None, rest |-> v]
                ELSE [out |-> Some(Head(v)), rest |-> Tail(v)]

\* Vec::pop
pop(v) == IF Len(v) = 0 THEN [out |-> None, rest |-> v]
          ELSE [out |-> Some(v[Len(v)]), rest |-> SubSeq(v, 1, Len(v) - 1)]

\* a pop_front that takes the newest element
pop_back(v) == IF Len(v) = 0 THEN [out |-> None, rest |-> v]
               ELSE [out |-> Some(v[Len(v)]), rest |-> SubSeq(v, 1, Len(v) - 1)]

\* a pop_front that never finds an element
pop_front_none(v) == [out |-> None, rest |-> v]

\* VecDeque::pop_front
pop_front(v) == IF Len(v) = 0 THEN [out |-> None, rest |-> v]
                ELSE [out |-> Some(Head(v)), rest |-> Tail(v)]

\* a push that loses the id
push_lost(v, x) == v

\* Vec::push
push(v, x) == Append(v, x)

\* VecDeque::push_back
push_back(v, x) == Append(v, x)

\* a start_take that also succeeds while another take reads the slot
start_take_busy(f) == [ok |-> f \in {FULL, READING},
                       flag |-> IF f \in {FULL, READING} THEN READING ELSE f]

\* a start_take that empties the flag when it fails
start_take_reset(f) == [ok |-> f = FULL, flag |-> IF f = FULL THEN READING ELSE EMPTY]

\* InitFlag::start_take: compare_and_swap(0b11, 0b01)
start_take(f) == [ok |-> f = FULL, flag |-> IF f = FULL THEN READING ELSE f]

\* a start_init that also succeeds while another put writes the slot
start_init_busy(f) == [ok |-> f \in {EMPTY, WRITING},
                       flag |-> IF f \in {EMPTY, WRITING} THEN WRITING ELSE f]

\* start_init that also claims a full slot
start_init_over(f) == [ok |-> f \in {EMPTY, FULL},
                       flag |-> IF f \in {EMPTY, FULL} THEN WRITING ELSE f]

\* InitFlag::start_init: compare_and_swap(0b00, 0b10)
start_init(f) == [ok |-> f = EMPTY, flag |-> IF f = EMPTY THEN WRITING ELSE f]

\* the pool holds an id that a take can get
Holds(p) ==
    CASE p = "none" -> FALSE
      [] p = "stack" -> Len(stack) > 0
      [] p = "queue" -> Len(queue) > 0
      [] p = "one" -> flag = FULL

(* ------------------- Runtime::try_with_id_alloc_and_pool ---------------- *)
\* entry of the constructor up to the first step of `pool.take_mut()`
\* p: the pool; m: a try_ constructor, or one that panics; with m = "take"
\* the first step of a Pool::take / PoolMut::take_mut that the program
\* calls itself
Create(t, p, m) ==
    /\ pc[t] = "idle"
    /\ LET me == [NoLoc EXCEPT !.pool = p, !.mode = m, !.hadId = Holds(p),
                               !.exhTake = Holds(p) /\ Exhausted,
                               !.pre = IF tracing /\ p = "one" THEN flag ELSE EMPTY]
           ToAlloc == /\ pc' = [pc EXCEPT ![t] = "try_next"]
                      /\ loc' = [loc EXCEPT ![t] = me]
                      /\ UNCHANGED <<live, loose, used, handles, ret, log>>
                      /\ done' = NoDone
           NoId == IF m = "take" THEN Fail(t, me) ELSE ToAlloc
       IN
       CASE p = "none" ->
              /\ NoId
              /\ UNCHANGED <<stack, queue, flag>>
         [] p = "stack" ->
              LET r == pop(stack) IN
              /\ stack' = r.rest
              /\ UNCHANGED <<queue, flag>>
              /\ IF is_some(r.out) THEN Finish(t, unwrap(r.out), "pool", me)
                                   ELSE NoId
         [] p = "queue" ->
              LET r == pop_front(queue) IN
              /\ queue' = r.rest
              /\ UNCHANGED <<stack, flag>>
              /\ IF is_some(r.out) THEN Finish(t, unwrap(r.out), "pool", me)
                                   ELSE NoId
         [] p = "one" ->
              LET r == start_take(flag) IN
              /\ flag' = r.flag
              /\ UNCHANGED <<stack, queue>>
              /\ IF r.ok
                 THEN /\ pc' = [pc EXCEPT ![t] = "read"]
                      /\ loc' = [loc EXCEPT ![t] = me]
                      /\ UNCHANGED <<live, loose, used, handles, ret, log>>
                      /\ done' = NoDone
                 ELSE NoId
    /\ alive_max' = IF m \in Modes THEN Raise(alive_max, Alive + 1) ELSE alive_max
    /\ UNCHANGED <<other_ids, scalar, pools, next_id, slot, tracing>>

\* Pool::take / PoolMut::take_mut of the pool p, called by the program
PoolTake(t, p) == Create(t, p, "take")

\* IdAlloc::try_next (m = "try_next") or IdAlloc::next (m = "next"), called
\* by the program on the allocator: the call begins
AllocNext(t, m) ==
    /\ pc[t] = "idle"
    /\ pc' = [pc EXCEPT ![t] = "try_next"]
    /\ loc' = [loc EXCEPT ![t] = [NoLoc EXCEPT !.mode = m]]
    /\ done' = NoDone
    /\ UNCHANGED <<other_ids, alive_max, scalar, pools, next_id, stack, queue, flag,
                   slot, live, loose, used, handles, ret, tracing, log>>

\* what a read of the slot of the one pool can return
SlotValues ==
    IF is_some(slot) THEN {unwrap(slot)}
    ELSE IF scalar = "unit" THEN {UnitId} ELSE U8_MIN..U8_MAX

\* one pool, take_mut: `make_global_SINGLE_REUSE_ITEM.as_ptr().read()`
OneRead(t) ==
    /\ pc[t] = "read"
    /\ \E x \in SlotValues : loc' = [loc EXCEPT ![t].item = Some(x)]
    /\ pc' = [pc EXCEPT ![t] = "finish_take"]
    /\ UNCHANGED <<other_ids, alive_max, scalar, pools, next_id, stack, queue, flag, slot, live, loose,
                   used, handles, ret, tracing, log>>
    /\ done' = NoDone

\* one pool, take_mut: finish_take() and `Some(x)`; the constructor returns
OneFinishTake(t) ==
    /\ pc[t] = "finish_take"
    /\ flag' = EMPTY
    /\ Finish(t, unwrap(loc[t].item), "pool", loc[t])
    /\ UNCHANGED <<other_ids, alive_max, scalar, pools, next_id, stack, queue, slot, tracing>>

(* ---------------------------- IdAlloc ----------------------------------- *)
\* Scalar::inc_atomic of `()`: compare_and_swap(true, false)
UnitTryNext(t) ==
    /\ pc[t] = "try_next"
    /\ scalar = "unit"
    /\ IF next_id
       THEN /\ next_id' = FALSE
            /\ Finish(t, UnitId, "alloc", [loc[t] EXCEPT !.asked = TRUE])
       ELSE /\ Fail(t, [loc[t] EXCEPT !.asked = TRUE])
            /\ UNCHANGED next_id
    /\ UNCHANGED <<other_ids, alive_max, scalar, pools, stack, queue, flag, slot, tracing>>

\* Scalar::inc_atomic of u8: `atomic.load(Relaxed)`
Load(t) ==
    /\ pc[t] = "try_next"
    /\ scalar = "u8"
    /\ loc' = [loc EXCEPT ![t].value = Some(next_id), ![t].asked = TRUE]
    /\ pc' = [pc EXCEPT ![t] = "cas"]
    /\ UNCHANGED <<other_ids, alive_max, scalar, pools, next_id, stack, queue, flag, slot, live, loose,
                   used, handles, ret, tracing, log>>
    /\ done' = NoDone

\* a turn of the loop that stores the next value without comparing the
\* counter with the value loaded
Cas_store(t) ==
    /\ pc[t] = "cas"
    /\ LET value == unwrap(loc[t].value)
           next == checked_add(value)
       IN IF is_out_of_bounds(next, NumMax)
          THEN /\ Fail(t, loc[t])
               /\ UNCHANGED next_id
          ELSE /\ next_id' = unwrap(next)
               /\ Finish(t, convert(value), "alloc", loc[t])
    /\ UNCHANGED <<other_ids, alive_max, scalar, pools, stack, queue, flag, slot, tracing>>

\* a turn of the loop of inc_atomic that ends it: the next value is out of
\* bounds, or compare_exchange_weak succeeds
Cas(t) ==
    /\ pc[t] = "cas"
    /\ LET value == unwrap(loc[t].value)
           next == checked_add(value)
       IN IF is_out_of_bounds(next, NumMax)
          THEN /\ Fail(t, loc[t])
               /\ UNCHANGED next_id
          ELSE /\ next_id = value
               /\ next_id' = unwrap(next)
               /\ Finish(t, convert(value), "alloc", loc[t])
    /\ UNCHANGED <<other_ids, alive_max, scalar, pools, stack, queue, flag, slot, tracing>>

\* a turn of the loop in which compare_exchange_weak fails, because the
\* counter has moved or spuriously: `value = old_value`
CasFail(t) ==
    /\ pc[t] = "cas"
    /\ ~is_out_of_bounds(checked_add(unwrap(loc[t].value)), NumMax)
    /\ loc' = [loc EXCEPT ![t].value = Some(next_id)]
    /\ UNCHANGED <<other_ids, alive_max, scalar, pools, next_id, stack, queue, flag, slot, pc, live, loose,
                   used, handles, ret, tracing, log>>
    /\ done' = NoDone

(* --------------------------- Drop for Runtime --------------------------- *)
\* the result of a try_put_mut that refuses the id: `Err(value)`
Err(p, id) == [NoDone EXCEPT !.res = "Err", !.id = Some(id), !.pool = p]

\* the pool p takes an id that is put into it now
Accepts(p) ==
    CASE p = "none" -> FALSE
      [] p = "stack" -> TRUE
      [] p = "queue" -> TRUE
      [] p = "one" -> start_init(flag).ok

\* `pool.try_put_mut(RuntimeId(id))` by thread t, up to the end of its first
\* step. op: "drop" in the drop of a Runtime, "put" in a call of the program
try_put_mut(t, p, id, op) ==
    LET x == [id |-> id, pool |-> p] IN
    CASE p = "none" ->
           /\ log' = Logged(Event(op, x, id, "lost", EMPTY))
           /\ UNCHANGED <<stack, queue, flag, pc, loc, ret>>
           /\ done' = Err(p, id)
      [] p = "stack" ->
           /\ stack' = push(stack, id)
           /\ ret' = [ret EXCEPT ![p] = Append(@, id)]
           /\ log' = Logged(Event(op, x, id, "kept", EMPTY))
           /\ UNCHANGED <<queue, flag, pc, loc>>
           /\ done' = NoDone
      [] p = "queue" ->
           /\ queue' = push_back(queue, id)
           /\ ret' = [ret EXCEPT ![p] = Append(@, id)]
           /\ log' = Logged(Event(op, x, id, "kept", EMPTY))
           /\ UNCHANGED <<stack, flag, pc, loc>>
           /\ done' = NoDone
      [] p = "one" ->
           LET s == start_init(flag) IN
           /\ flag' = s.flag
           /\ ret' = IF s.ok THEN [ret EXCEPT ![p] = Append(@, id)] ELSE ret
           /\ log' = Logged(Event(op, x, id, IF s.ok THEN "kept" ELSE "lost", flag))
           /\ pc' = [pc EXCEPT ![t] = IF s.ok THEN "write" ELSE "idle"]
           /\ loc' = [loc EXCEPT ![t] =
                         IF s.ok THEN [NoLoc EXCEPT !.pool = "one", !.mode = op,
                                                    !.item = Some(id)]
                         ELSE NoLoc]
           /\ UNCHANGED <<stack, queue>>
           /\ done' = IF s.ok THEN NoDone ELSE Err(p, id)

\* drop of the Runtime r by thread t, up to the end of the first step of
\* `self.pool.try_put_mut(RuntimeId(self.id))`; the result is discarded
Drop(t, r) ==
    /\ pc[t] = "idle"
    /\ r \in live
    /\ live' = live \ {r}
    /\ try_put_mut(t, r.pool, r.id, "drop")
    /\ UNCHANGED <<other_ids, alive_max, scalar, pools, next_id, slot, used, handles, tracing, loose>>

\* Pool::try_put / PoolMut::try_put_mut of the pool p, called by the
\* program with a RuntimeId it holds; `Err(value)` gives the id back
PoolTryPut(t, p, id) ==
    /\ pc[t] = "idle"
    /\ id \in loose
    /\ loose' = IF Accepts(p) THEN loose \ {id} ELSE loose
    /\ try_put_mut(t, p, id, "put")
    /\ UNCHANGED <<other_ids, alive_max, scalar, pools, next_id, slot, used, handles, tracing, live>>

\* the program drops a RuntimeId it holds: the id is lost
IdDrop(id) ==
    /\ id \in loose
    /\ loose' = loose \ {id}
    /\ done' = NoDone
    /\ UNCHANGED <<other_ids, alive_max, scalar, pools, next_id, stack, queue, flag,
                   slot, pc, loc, live, used, handles, ret, tracing, log>>

\* one pool, try_put_mut: `make_global_SINGLE_REUSE_ITEM = MaybeUninit::new(value)`
OneWrite(t) ==
    /\ pc[t] = "write"
    /\ slot' = loc[t].item
    /\ pc' = [pc EXCEPT ![t] = "finish_init"]
    /\ UNCHANGED <<other_ids, alive_max, scalar, pools, next_id, stack, queue, flag, loc, live, loose,
                   used, handles, ret, tracing, log>>
    /\ done' = NoDone

\* one pool, try_put_mut: finish_init() and `Ok(())`; the drop returns
OneFinishInit(t) ==
    /\ pc[t] = "finish_init"
    /\ flag' = FULL
    /\ pc' = [pc EXCEPT ![t] = "idle"]
    /\ loc' = [loc EXCEPT ![t] = NoLoc]
    /\ UNCHANGED <<other_ids, alive_max, scalar, pools, next_id, stack, queue, slot, live, loose, used,
                   handles, ret, tracing, log>>
    /\ done' = NoDone

(* ------------------ make_typeid: ResettableOnceFlag --------------------- *)
\* AtomicBool::compare_and_swap: stores new if the value is current, returns
\* the previous value
compare_and_swap(a, current, new) ==
    [old |-> a, new |-> IF a = current THEN new ELSE a]

\* a swap that returns the value and stores nothing
swap_load(a, v) == [old |-> a, new |-> a]

\* AtomicBool::swap: stores v, returns the previous value
swap(a, v) == [old |-> a, new |-> v]

\* ResettableOnceFlag::acquire without std
acquire_no_std(l) ==
    LET s == compare_and_swap(l, TRUE, FALSE) IN [ok |-> s.old, locked |-> s.new]

\* a try_acquire that tests the flag and does not set it
try_acquire_peek(l) ==
    [ok |-> IF std THEN ~l ELSE l, locked |-> l]

\* a try_acquire that reports the flag as taken whatever it held
try_acquire_refuse(l) ==
    [ok |-> FALSE, locked |-> IF std THEN TRUE ELSE FALSE]

\* ResettableOnceFlag::try_acquire: `!self.locked.swap(true, Acquire)` with
\* std, `self.acquire()` without
try_acquire(l) ==
    IF std THEN LET s == swap(l, TRUE) IN [ok |-> ~s.old, locked |-> s.new]
    ELSE acquire_no_std(l)

\* a release that leaves the flag as it is
release_skip(l) == l

\* ResettableOnceFlag::release, the store: `store(false)` with std,
\* `store(true)` without
release(l) == IF std THEN FALSE ELSE TRUE

\* a take that tests the flag and does not clear it
take_peek(f) == [ok |-> f, flag |-> f]

\* OnceFlag::take
take(f) == LET s == compare_and_swap(f, TRUE, FALSE) IN [ok |-> s.old, flag |-> s.new]

RECURSIVE Total(_, _)
\* the sum of f over the threads S
Total(f, S) ==
    IF S = {} THEN 0
    ELSE LET t == CHOOSE x \in S : TRUE IN f[t] + Total(f, S \ {t})

\* the instances of Type<T> that exist
Instances == Total(held, Threads)

\* the threads whose T::new() has acquired the flag and is about to return
\* its instance
Returning == {t \in Threads : tpc[t] = "unlock"}

\* an instance of Type<T> exists, or is being returned to its creator
Exists == Instances + Cardinality(Returning) > 0

\* the flag of T is in the state in which ResettableOnceFlag::new made it
Released == locked = ResettableOnceFlag_new(std)

\* `Type::new_unchecked(..)` is returned to thread t by T::new (m = "panic")
\* or T::try_new (m = "try")
Given(t, m, existed, after) ==
    /\ held' = [held EXCEPT ![t] = @ + 1]
    /\ lives' = [lives EXCEPT !.dropped = FALSE]
    /\ tdone' = [op |-> "type", mode |-> m, t |-> Some(t), res |-> "ok",
                 existed |-> existed, after_drop |-> after]
    /\ tpc' = [tpc EXCEPT ![t] = "idle"]

\* the call of thread t ends without an instance: `None`, or a panic
Refused(t, m, existed) ==
    /\ tdone' = [op |-> "type", mode |-> m, t |-> Some(t),
                 res |-> IF m = "try" THEN "None" ELSE "panic",
                 existed |-> existed, after_drop |-> lives.dropped]
    /\ tpc' = [tpc EXCEPT ![t] = "idle"]
    /\ UNCHANGED <<held, lives>>

(* --------------------------- make_typeid: type T ------------------------ *)
\* T::new up to the end of the first step of acquire(): with std the swap,
\* without std the whole of acquire()
TypeNew(t) ==
    /\ tpc[t] = "idle"
    /\ IF std
       THEN LET s == swap(locked, TRUE) IN
            /\ locked' = s.new
            /\ IF s.old
               THEN /\ tpc' = [tpc EXCEPT ![t] = "init"]
                    /\ saw' = [saw EXCEPT ![t] = Exists]
                    /\ tdone' = NoTDone
                    /\ UNCHANGED <<held, lives>>
               ELSE /\ Given(t, "panic", Exists, lives.dropped)
                    /\ UNCHANGED saw
       ELSE LET a == acquire_no_std(locked) IN
            /\ locked' = a.locked
            /\ UNCHANGED saw
            /\ IF a.ok THEN Given(t, "panic", Exists, lives.dropped)
                       ELSE Refused(t, "panic", Exists)
    /\ UNCHANGED <<std, once, mutex, cv, once_flag, held_once, made_once, not_typeid>>

\* acquire (std): `self.init()`
TypeInit(t) ==
    /\ tpc[t] = "init"
    /\ once' = TRUE
    /\ tpc' = [tpc EXCEPT ![t] = "lock"]
    /\ tdone' = NoTDone
    /\ UNCHANGED <<std, locked, mutex, cv, once_flag, saw, held, held_once,
                   made_once, lives, not_typeid>>

\* acquire (std): `mutex.lock()`, and the lock that cv.wait takes again when
\* the thread was woken
TypeLock(t) ==
    /\ tpc[t] \in {"lock", "woken"}
    /\ is_none(mutex)
    /\ mutex' = Some(t)
    /\ tpc' = [tpc EXCEPT ![t] = "cas"]
    /\ tdone' = NoTDone
    /\ UNCHANGED <<std, locked, once, cv, once_flag, saw, held, held_once,
                   made_once, lives, not_typeid>>

\* acquire (std): the test of the loop,
\* `self.locked.compare_and_swap(false, true, Acquire)`
TypeCas(t) ==
    /\ tpc[t] = "cas"
    /\ LET s == compare_and_swap(locked, FALSE, TRUE) IN
       /\ locked' = s.new
       /\ tpc' = [tpc EXCEPT ![t] = IF s.old THEN "wait" ELSE "unlock"]
       /\ lives' = IF s.old THEN lives ELSE [lives EXCEPT !.dropped = FALSE]
    /\ tdone' = NoTDone
    /\ UNCHANGED <<std, once, mutex, cv, once_flag, saw, held, held_once,
                   made_once, not_typeid>>

\* acquire (std): `cv.wait(guard)` unlocks the mutex and blocks the thread
TypeWait(t) ==
    /\ tpc[t] = "wait"
    /\ mutex' = None
    /\ cv' = cv \cup {t}
    /\ tpc' = [tpc EXCEPT ![t] = "waiting"]
    /\ tdone' = NoTDone
    /\ UNCHANGED <<std, locked, once, once_flag, saw, held, held_once,
                   made_once, lives, not_typeid>>

\* Condvar::wait may wake up without a notification
TypeSpurious(t) ==
    /\ tpc[t] = "waiting"
    /\ t \in cv
    /\ cv' = cv \ {t}
    /\ tpc' = [tpc EXCEPT ![t] = "woken"]
    /\ tdone' = NoTDone
    /\ UNCHANGED <<std, locked, once, mutex, once_flag, saw, held, held_once,
                   made_once, lives, not_typeid>>

\* acquire (std): the guard is dropped, acquire returns true and T::new
\* returns the instance
TypeUnlock(t) ==
    /\ tpc[t] = "unlock"
    /\ mutex' = None
    /\ Given(t, "panic", saw[t], FALSE)
    /\ UNCHANGED <<std, locked, once, cv, once_flag, saw, held_once,
                   made_once, not_typeid>>

\* T::try_new
TypeTryNew(t) ==
    /\ tpc[t] = "idle"
    /\ LET a == try_acquire(locked) IN
       /\ locked' = a.locked
       /\ IF a.ok THEN Given(t, "try", Exists, lives.dropped)
                  ELSE Refused(t, "try", Exists)
    /\ UNCHANGED <<std, once, mutex, cv, once_flag, saw, held_once,
                   made_once, not_typeid>>

\* Drop for T up to the end of the store of release()
TypeDrop(t) ==
    /\ tpc[t] = "idle"
    /\ held[t] > 0
    /\ held' = [held EXCEPT ![t] = @ - 1]
    /\ locked' = release(locked)
    /\ lives' = [n |-> lives.n + 1, dropped |-> TRUE]
    /\ tpc' = [tpc EXCEPT ![t] = IF std THEN "release" ELSE "idle"]
    /\ tdone' = [NoTDone EXCEPT !.op = "drop", !.t = Some(t)]
    /\ UNCHANGED <<std, once, mutex, cv, once_flag, saw, held_once,
                   made_once, not_typeid>>

\* release (std): the `self.init()` of `self.init().1.notify_one()`, whose
\* call_once has run when it returns
TypeReleaseInit(t) ==
    /\ tpc[t] = "release"
    /\ once' = TRUE
    /\ tpc' = [tpc EXCEPT ![t] = "notify"]
    /\ tdone' = NoTDone
    /\ UNCHANGED <<std, locked, mutex, cv, once_flag, saw, held, held_once,
                   made_once, lives, not_typeid>>

\* release (std): the `notify_one()` of `self.init().1.notify_one()` wakes
\* one of the threads that wait on the condition variable, if there is one
TypeNotify(t) ==
    /\ tpc[t] = "notify"
    /\ IF cv = {}
       THEN /\ tpc' = [tpc EXCEPT ![t] = "idle"]
            /\ UNCHANGED cv
       ELSE \E w \in cv :
            /\ cv' = cv \ {w}
            /\ tpc' = [tpc EXCEPT ![t] = "idle", ![w] = "woken"]
    /\ tdone' = NoTDone
    /\ UNCHANGED <<std, locked, once, mutex, once_flag, saw, held, held_once,
                   made_once, lives, not_typeid>>

(* ------------------------- make_typeid: once type ------------------------ *)
\* try_new of the once type (m = "try"), and new, which is
\* `Self::try_new().expect(..)` (m = "panic")
OnceCreate(t, m) ==
    /\ tpc[t] = "idle"
    /\ LET a == take(once_flag) IN
       /\ once_flag' = a.flag
       /\ held_once' = IF a.ok THEN [held_once EXCEPT ![t] = @ + 1] ELSE held_once
       /\ made_once' = IF a.ok THEN made_once + 1 ELSE made_once
       /\ tdone' = [op |-> "once", mode |-> m, t |-> Some(t),
                    res |-> IF a.ok THEN "ok"
                            ELSE IF m = "try" THEN "None" ELSE "panic",
                    existed |-> Total(held_once, Threads) > 0,
                    after_drop |-> FALSE]
    /\ UNCHANGED <<std, locked, once, mutex, cv, tpc, saw, held, lives, not_typeid>>

\* an instance of the once type is dropped: the type has no Drop
OnceDrop(t) ==
    /\ tpc[t] = "idle"
    /\ held_once[t] > 0
    /\ held_once' = [held_once EXCEPT ![t] = @ - 1]
    /\ tdone' = [NoTDone EXCEPT !.op = "once_drop", !.t = Some(t)]
    /\ UNCHANGED <<std, locked, once, mutex, cv, once_flag, tpc, saw, held,
                   made_once, lives, not_typeid>>

(* ----------------------------- make_typeid_tl --------------------------- *)
\* a take that tests the flag and does not clear it
local_take_peek(f) == [ok |-> f, flag |-> f]

\* LocalOnceFlag::take: `let flag = self.0.get(); self.0.set(false); flag`
local_take(f) == [ok |-> f, flag |-> FALSE]

\* a reset that leaves the flag as it is
reset_skip(f) == f

\* LocalOnceFlag::reset: `self.0.set(true)`
reset(f) == TRUE

\* the result of a creation of thread t in mode m
TlResult(op, t, m, ok) ==
    [op |-> op, mode |-> m, t |-> Some(t),
     res |-> IF ok THEN "ok" ELSE IF m = "try" THEN "None" ELSE "panic",
     after_drop |-> tl_dropped[t]]

\* T::try_new of make_typeid_tl (m = "try"), and T::new, which is
\* `Self::try_new().expect(..)` (m = "panic"), in thread t
TlCreate(t, m) ==
    /\ LET a == local_take(tl_flag[t]) IN
       /\ tl_flag' = [tl_flag EXCEPT ![t] = a.flag]
       /\ tl_held' = IF a.ok THEN [tl_held EXCEPT ![t] = @ + 1] ELSE tl_held
       /\ tl_dropped' = IF a.ok THEN [tl_dropped EXCEPT ![t] = FALSE] ELSE tl_dropped
       /\ tl_done' = TlResult("type", t, m, a.ok)
    /\ UNCHANGED <<tl_once, tl_held_once, tl_made_once, not_typeid_tl>>

\* Drop for T of make_typeid_tl, in the thread t that holds the instance
TlDrop(t) ==
    /\ tl_held[t] > 0
    /\ tl_held' = [tl_held EXCEPT ![t] = @ - 1]
    /\ tl_flag' = [tl_flag EXCEPT ![t] = reset(@)]
    /\ tl_dropped' = [tl_dropped EXCEPT ![t] = TRUE]
    /\ tl_done' = [NoTlDone EXCEPT !.op = "drop", !.t = Some(t)]
    /\ UNCHANGED <<tl_once, tl_held_once, tl_made_once, not_typeid_tl>>

\* try_new (m = "try") and new (m = "panic") of the once type of
\* make_typeid_tl, in thread t
TlOnceCreate(t, m) ==
    /\ LET a == local_take(tl_once[t]) IN
       /\ tl_once' = [tl_once EXCEPT ![t] = a.flag]
       /\ tl_held_once' = IF a.ok THEN [tl_held_once EXCEPT ![t] = @ + 1]
                          ELSE tl_held_once
       /\ tl_made_once' = IF a.ok THEN [tl_made_once EXCEPT ![t] = @ + 1]
                          ELSE tl_made_once
       /\ tl_done' = TlResult("once", t, m, a.ok)
    /\ UNCHANGED <<tl_flag, tl_held, tl_dropped, not_typeid_tl>>

\* an instance of the once type of make_typeid_tl is dropped: the type has
\* no Drop
TlOnceDrop(t) ==
    /\ tl_held_once[t] > 0
    /\ tl_held_once' = [tl_held_once EXCEPT ![t] = @ - 1]
    /\ tl_done' = [NoTlDone EXCEPT !.op = "once_drop", !.t = Some(t)]
    /\ UNCHANGED <<tl_flag, tl_once, tl_held, tl_made_once, tl_dropped,
                   not_typeid_tl>>

(* ------------------------ make_global_id_alloc_tl ----------------------- *)
\* an inc_local that returns the id and leaves the counter where it was
inc_local_stuck(sc, value) ==
    IF sc = "unit" THEN (IF value THEN Some(<<value, UnitId>>) ELSE None)
    ELSE Some(<<value, convert(value)>>)

\* Scalar::inc_local: the next value of the counter and the id, or None
inc_local(sc, value) ==
    IF sc = "unit" THEN (IF value THEN Some(<<FALSE, UnitId>>) ELSE None)
    ELSE LET next == checked_add(value) IN
         IF is_out_of_bounds(next, NumMax) THEN None
         ELSE Some(<<unwrap(next), convert(value)>>)

\* try_alloc of the thread-local allocator in thread t (m = "try"), and
\* alloc, which is `try_alloc(self).expect(..)` (m = "panic")
TlAlloc(t, m) ==
    /\ LET r == inc_local(local_scalar, local_next[t]) IN
       IF is_none(r)
       THEN /\ al_done' = [t |-> Some(t), mode |-> m, id |-> None,
                           res |-> IF m = "try" THEN "None" ELSE "panic"]
            /\ UNCHANGED <<local_next, got>>
       ELSE LET val == unwrap(r)[1]
                id == unwrap(r)[2]
            IN /\ local_next' = [local_next EXCEPT ![t] = val]
               /\ got' = [got EXCEPT ![t] = Append(@, id)]
               /\ al_done' = [t |-> Some(t), mode |-> m, id |-> Some(id),
                              res |-> "ok"]
    /\ UNCHANGED <<local_scalar, not_alloc_tl>>

(* -------------------- make_global_pool, thread_local -------------------- *)
\* a thread_local! key whose value is that of one thread for all threads
with_shared(t) == CHOOSE u \in Threads : \A v \in Threads : u <= v

\* LocalKey::with in thread t: the value of the calling thread
with(t) == t

\* PoolMut::take_mut of Option<RuntimeId>, the take of the thread_local
\* one pool: `self.take()`, `c.take()`
option_take(c) == [out |-> c, rest |-> None]

\* PoolMut::try_put_mut of Option<RuntimeId>, the put of the thread_local
\* one pool: `if is_none { Some(value); Ok(()) } else { Err(value) }`
option_try_put(c, value) ==
    IF is_none(c) THEN [ok |-> TRUE, cell |-> Some(value)]
    ELSE [ok |-> FALSE, cell |-> c]

\* the thread_local pool p of thread w holds an id that a take can get
HoldsTl(w, p) ==
    CASE p = "tl_stack" -> Len(local_stack[w]) > 0
      [] p = "tl_queue" -> Len(local_queue[w]) > 0
      [] p = "tl_one" -> is_some(local_slot[w])

\* the ids in the thread_local pool p of thread w
PooledTl(w, p) ==
    CASE p = "tl_stack" -> {local_stack[w][i] : i \in 1..Len(local_stack[w])}
      [] p = "tl_queue" -> {local_queue[w][i] : i \in 1..Len(local_queue[w])}
      [] p = "tl_one" -> {local_slot[w][i] : i \in 1..Len(local_slot[w])}

\* Runtime::try_with_id_alloc_and_pool with a thread_local pool p, up to the
\* end of `pool.take_mut()`; with m = "take" a Pool::take / PoolMut::take_mut
\* that the program calls itself
CreateTl(t, p, m) ==
    /\ pc[t] = "idle"
    /\ LET w == with(t)
           me == [NoLoc EXCEPT !.pool = p, !.mode = m, !.hadId = HoldsTl(w, p),
                               !.exhTake = HoldsTl(w, p) /\ Exhausted]
           got_id(out) ==
               IF is_some(out) THEN Finish(t, unwrap(out), "pool", me)
               ELSE IF m = "take" THEN Fail(t, me)
               ELSE /\ pc' = [pc EXCEPT ![t] = "try_next"]
                    /\ loc' = [loc EXCEPT ![t] = me]
                    /\ UNCHANGED <<live, loose, used, handles, ret, log>>
                    /\ done' = NoDone
       IN
       CASE p = "tl_stack" ->
              LET r == pop(local_stack[w]) IN
              /\ local_stack' = [local_stack EXCEPT ![w] = r.rest]
              /\ UNCHANGED <<local_queue, local_slot>>
              /\ got_id(r.out)
         [] p = "tl_queue" ->
              LET r == pop_front(local_queue[w]) IN
              /\ local_queue' = [local_queue EXCEPT ![w] = r.rest]
              /\ UNCHANGED <<local_stack, local_slot>>
              /\ got_id(r.out)
         [] p = "tl_one" ->
              LET r == option_take(local_slot[w]) IN
              /\ local_slot' = [local_slot EXCEPT ![w] = r.rest]
              /\ UNCHANGED <<local_stack, local_queue>>
              /\ got_id(r.out)
    /\ alive_max' = IF m \in Modes THEN Raise(alive_max, Alive + 1) ELSE alive_max
    /\ UNCHANGED <<scalar, pools, next_id, stack, queue, flag, slot, tracing,
                   put_by, typeid_vars, typeid_tl_vars, alloc_tl_vars,
                   thread_group_vars>>

\* Pool::take / PoolMut::take_mut of the thread_local pool p, called by the
\* program in thread t
PoolTakeTl(t, p) == CreateTl(t, p, "take")

\* the id was returned to a thread_local pool by thread t
PutBy(id, t) == {x \in put_by : x[1] # id} \cup {<<id, t>>}

\* the thread_local pool p of thread w takes an id that is put into it now
AcceptsTl(w, p) ==
    CASE p = "tl_stack" -> TRUE
      [] p = "tl_queue" -> TRUE
      [] p = "tl_one" -> option_try_put(local_slot[w], None).ok

\* `pool.try_put_mut(RuntimeId(id))` of the thread_local pool p in thread t.
\* op: "drop" in the drop of a Runtime, "put" in a call of the program
try_put_mut_tl(t, p, id, op) ==
    LET w == with(t)
        x == [id |-> id, pool |-> p]
    IN
    CASE p = "tl_stack" ->
           /\ local_stack' = [local_stack EXCEPT ![w] = push(@, id)]
           /\ put_by' = PutBy(id, t)
           /\ log' = Logged(Event(op, x, id, "kept", EMPTY))
           /\ UNCHANGED <<local_queue, local_slot>>
           /\ done' = NoDone
      [] p = "tl_queue" ->
           /\ local_queue' = [local_queue EXCEPT ![w] = push_back(@, id)]
           /\ put_by' = PutBy(id, t)
           /\ log' = Logged(Event(op, x, id, "kept", EMPTY))
           /\ UNCHANGED <<local_stack, local_slot>>
           /\ done' = NoDone
      [] p = "tl_one" ->
           LET s == option_try_put(local_slot[w], id) IN
           /\ local_slot' = [local_slot EXCEPT ![w] = s.cell]
           /\ put_by' = IF s.ok THEN PutBy(id, t) ELSE put_by
           /\ log' = Logged(Event(op, x, id, IF s.ok THEN "kept" ELSE "lost", EMPTY))
           /\ UNCHANGED <<local_stack, local_queue>>
           /\ done' = IF s.ok THEN NoDone ELSE Err(p, id)

\* drop of the Runtime r with a thread_local pool: the compiler lets only
\* the thread that created r have it
DropTl(t, r) ==
    /\ pc[t] = "idle"
    /\ r \in live
    /\ r.home = Some(t)
    /\ live' = live \ {r}
    /\ try_put_mut_tl(t, r.pool, r.id, "drop")
    /\ UNCHANGED <<alive_max, scalar, pools, next_id, stack, queue, flag, slot,
                   pc, loc, used, handles, ret, tracing, loose,
                   typeid_vars, typeid_tl_vars, alloc_tl_vars, thread_group_vars>>

\* Pool::try_put / PoolMut::try_put_mut of the thread_local pool p, called
\* by the program in thread t with a RuntimeId it holds (RuntimeId is Send)
PoolTryPutTl(t, p, id) ==
    /\ pc[t] = "idle"
    /\ id \in loose
    /\ loose' = IF AcceptsTl(with(t), p) THEN loose \ {id} ELSE loose
    /\ try_put_mut_tl(t, p, id, "put")
    /\ UNCHANGED <<alive_max, scalar, pools, next_id, stack, queue, flag, slot,
                   pc, loc, used, handles, ret, tracing, live,
                   typeid_vars, typeid_tl_vars, alloc_tl_vars, thread_group_vars>>

(* ------------------------ test_setup: ThreadGroup ----------------------- *)
\* the spawned thread has stored its ThreadInfo
Recorded == {"notify", "exit", "end"}

\* the closure `f` of the thread has ended, by a return or by a panic; a
\* thread that found the Mutex poisoned has panicked after it
Finished == {"lock", "record", "panicked"} \cup Recorded

RECURSIVE PassFrom(_, _, _)
\* the `for group in threads.iter_mut()` of Drop for ThreadGroup from entry
\* i on, with `done` counted so far: each entry it reaches is replaced
\* by Done; a Done counts, an Empty does not, a Panic ends the loop
PassFrom(th, i, n) ==
    IF i > Len(th) THEN [threads |-> th, done |-> n, panic |-> FALSE]
    ELSE LET group == th[i]
             replaced == [th EXCEPT ![i] = "Done"]
         IN CASE group = "Done" -> PassFrom(replaced, i + 1, n + 1)
              [] group = "Empty" -> PassFrom(replaced, i + 1, n)
              [] group = "Panic" -> [threads |-> replaced, done |-> n, panic |-> TRUE]

\* ThreadGroup::spawn: `packet.threads.lock().unwrap()` panics when the
\* Mutex is poisoned; `assert!(id < packet.size)` panics in a spawn beyond
\* the size of the group, while the guard is held, which poisons the Mutex;
\* else the entry of the thread is pushed as Empty, and the thread starts
\* and waits on Packet::barrier. A panic of spawn leaves the group with its
\* owner
GroupSpawn ==
    /\ tg_drop = "own"
    /\ is_none(tg_mutex)
    /\ LET id == Len(tg_threads) IN
       IF tg_poisoned
       THEN UNCHANGED <<tg_threads, tg_pc, tg_poisoned>>
       ELSE IF id < GroupSize
       THEN /\ tg_threads' = Append(tg_threads, "Empty")
            /\ tg_pc' = [tg_pc EXCEPT ![id + 1] = "barrier"]
            /\ UNCHANGED tg_poisoned
       ELSE /\ tg_poisoned' = TRUE
            /\ UNCHANGED <<tg_threads, tg_pc>>
    /\ UNCHANGED <<tg_out, tg_drop, tg_mutex, not_thread_group>>

\* Drop for ThreadGroup begins: `self.0.barrier.wait()`
GroupDrop ==
    /\ tg_drop = "own"
    /\ tg_drop' = "barrier"
    /\ UNCHANGED <<tg_threads, tg_pc, tg_out, tg_mutex, tg_poisoned, not_thread_group>>

\* Packet::barrier, of 1 + size threads, lets them all go
BarrierOpen ==
    /\ tg_drop = "barrier"
    /\ \A i \in Members : tg_pc[i] = "barrier"
    /\ tg_drop' = "lock"
    /\ tg_pc' = [i \in Members |-> "run"]
    /\ UNCHANGED <<tg_threads, tg_out, tg_mutex, tg_poisoned, not_thread_group>>

\* WaitOnDrop::wait, called by the closure: `self.0.waiter.wait()`
WaitOnDrop_wait(i) ==
    /\ tg_pc[i] = "run"
    /\ tg_pc' = [tg_pc EXCEPT ![i] = "wait"]
    /\ UNCHANGED <<tg_threads, tg_out, tg_drop, tg_mutex, tg_poisoned, not_thread_group>>

\* the closure drops its WaitOnDrop, at its end or before, or by the
\* unwinding of a panic: `self.0.waiter.wait()`
ClosureWait(i) ==
    /\ tg_pc[i] = "run"
    /\ tg_pc' = [tg_pc EXCEPT ![i] = "waiter"]
    /\ UNCHANGED <<tg_threads, tg_out, tg_drop, tg_mutex, tg_poisoned, not_thread_group>>

\* Packet::waiter, of size threads, lets them all go: a call of
\* WaitOnDrop::wait returns to the closure, a drop of WaitOnDrop ends
WaiterOpen ==
    /\ \A i \in Members : tg_pc[i] \in {"wait", "waiter"}
    /\ tg_pc' = [i \in Members |-> IF tg_pc[i] = "wait" THEN "run" ELSE "tail"]
    /\ UNCHANGED <<tg_threads, tg_out, tg_drop, tg_mutex, tg_poisoned, not_thread_group>>

\* the closure ends and catch_unwind returns: res is "ok" or "panic"
ClosureEnd(i, res) ==
    /\ tg_pc[i] = "tail"
    /\ tg_pc' = [tg_pc EXCEPT ![i] = "lock"]
    /\ tg_out' = [tg_out EXCEPT ![i] = res]
    /\ UNCHANGED <<tg_threads, tg_drop, tg_mutex, tg_poisoned, not_thread_group>>

\* the spawned thread: `packet.threads.lock().unwrap()`, which panics when
\* the Mutex is poisoned: the thread then ends without storing its
\* ThreadInfo
MemberLock(i) ==
    /\ tg_pc[i] = "lock"
    /\ is_none(tg_mutex)
    /\ IF tg_poisoned
       THEN /\ tg_pc' = [tg_pc EXCEPT ![i] = "panicked"]
            /\ UNCHANGED tg_mutex
       ELSE /\ tg_pc' = [tg_pc EXCEPT ![i] = "record"]
            /\ tg_mutex' = Some(i)
    /\ UNCHANGED <<tg_threads, tg_out, tg_drop, tg_poisoned, not_thread_group>>

\* the spawned thread: `threads[id] = ThreadInfo::Panic(e)` or
\* `threads[id] = ThreadInfo::Done`
MemberRecord(i) ==
    /\ tg_pc[i] = "record"
    /\ tg_threads' = [tg_threads EXCEPT ![i] = IF tg_out[i] = "panic" THEN "Panic" ELSE "Done"]
    /\ tg_pc' = [tg_pc EXCEPT ![i] = "notify"]
    /\ UNCHANGED <<tg_out, tg_drop, tg_mutex, tg_poisoned, not_thread_group>>

\* the spawned thread: `packet.cv.notify_one()`; the owner is the only
\* thread that waits on the condition variable
MemberNotify(i) ==
    /\ tg_pc[i] = "notify"
    /\ tg_pc' = [tg_pc EXCEPT ![i] = "exit"]
    /\ tg_drop' = IF tg_drop = "waiting" THEN "woken" ELSE tg_drop
    /\ UNCHANGED <<tg_threads, tg_out, tg_mutex, tg_poisoned, not_thread_group>>

\* the spawned thread ends: the guard of the Mutex is dropped
MemberExit(i) ==
    /\ tg_pc[i] = "exit"
    /\ tg_pc' = [tg_pc EXCEPT ![i] = "end"]
    /\ tg_mutex' = None
    /\ UNCHANGED <<tg_threads, tg_out, tg_drop, tg_poisoned, not_thread_group>>

\* Drop for ThreadGroup: `packet.threads.lock().unwrap()`, and the lock that
\* `cv.wait(threads).unwrap()` takes again when the owner was woken; both
\* panic when the Mutex is poisoned
OwnerLock ==
    /\ tg_drop \in {"lock", "woken"}
    /\ is_none(tg_mutex)
    /\ IF tg_poisoned
       THEN /\ tg_drop' = "panicked"
            /\ UNCHANGED tg_mutex
       ELSE /\ tg_mutex' = Some(Owner)
            /\ tg_drop' = "loop"
    /\ UNCHANGED <<tg_threads, tg_pc, tg_out, tg_poisoned, not_thread_group>>

\* Drop for ThreadGroup, a turn of the loop: the entries are counted; then
\* resume_unwind, or the break that ends the drop, or cv.wait, which
\* unlocks the Mutex
OwnerPass ==
    /\ tg_drop = "loop"
    /\ LET p == PassFrom(tg_threads, 1, 0) IN
       /\ tg_threads' = p.threads
       /\ tg_drop' = IF p.panic THEN "panicked"
                     ELSE IF p.done = GroupSize THEN "returned" ELSE "waiting"
       /\ tg_poisoned' = p.panic
    /\ tg_mutex' = None
    /\ UNCHANGED <<tg_pc, tg_out, not_thread_group>>

\* Condvar::wait may wake up without a notification
OwnerSpurious ==
    /\ tg_drop = "waiting"
    /\ tg_drop' = "woken"
    /\ UNCHANGED <<tg_threads, tg_pc, tg_out, tg_mutex, tg_poisoned, not_thread_group>>

(* --------------------------- specifications ----------------------------- *)
\* a creation that will ask the allocator stays within the ids of the run
Budget(p) ==
    IF Holds(p) \/ scalar = "unit" THEN TRUE
    ELSE IF next_id >= U8_MAX - MaxLeft THEN TRUE
    ELSE next_id + Cardinality(Allocating) < U8_MIN + MaxIds

Next ==
    \/ \E t \in Threads, m \in Modes, p \in pools : Budget(p) /\ Create(t, p, m)
    \/ \E t \in Threads, p \in pools : PoolTake(t, p)
    \/ \E t \in Threads, id \in loose, p \in pools : PoolTryPut(t, p, id)
    \/ \E id \in loose : IdDrop(id)
    \/ \E t \in Threads, m \in AllocModes : Budget("none") /\ AllocNext(t, m)
    \/ \E t \in Threads : OneRead(t)
    \/ \E t \in Threads : OneFinishTake(t)
    \/ \E t \in Threads : UnitTryNext(t)
    \/ \E t \in Threads : Load(t)
    \/ \E t \in Threads : Cas(t)
    \/ \E t \in Threads : CasFail(t)
    \/ \E t \in Threads, r \in live : Drop(t, r)
    \/ \E t \in Threads : OneWrite(t)
    \/ \E t \in Threads : OneFinishInit(t)

\* the threads of a program create Runtimes of one allocator, each with
\* one of the global pools or without a pool, and drop them; they also call
\* the pools (take, try_put) and the allocator (try_next, next) themselves
Spec == Init /\ [][Next]_vars

\* the thread that runs a sequential program
Main == CHOOSE t \in Threads : \A u \in Threads : t <= u

\* one thread creates and drops Runtimes, one call after the other, and the
\* creations and drops are logged (a spurious failure of the weak
\* compare-exchange changes nothing here and is left out)
InitSeq ==
    /\ \E sc \in Scalars, p \in Pools : InitWith(sc, {p}, U8_MIN, TRUE)
    /\ alive_max = None
    /\ NoOtherIds

NextSeq ==
    \/ \E m \in Modes, p \in pools : Len(log) < MaxEvents /\ Create(Main, p, m)
    \/ OneRead(Main)
    \/ OneFinishTake(Main)
    \/ UnitTryNext(Main)
    \/ Load(Main)
    \/ Cas(Main)
    \/ \E r \in live : Len(log) < MaxEvents /\ Drop(Main, r)
    \/ OneWrite(Main)
    \/ OneFinishInit(Main)

SpecSeq == InitSeq /\ [][NextSeq]_vars

\* the test exhaust_u8: one thread creates Runtimes of a u8 allocator
\* without a pool until the allocator is exhausted; each Runtime is dropped
\* before the next is created
InitExhaust ==
    /\ InitWith("u8", {"none"}, U8_MIN, TRUE)
    /\ alive_max = None
    /\ NoOtherIds

NextExhaust ==
    \/ \E m \in Modes, p \in pools : live = {} /\ Create(Main, p, m)
    \/ Load(Main)
    \/ Cas(Main)
    \/ \E r \in live : Drop(Main, r)

SpecExhaust == InitExhaust /\ [][NextExhaust]_vars

\* threads create and drop Runtimes of an allocator that starts at its
\* initial value, all with the same pool, which keeps every returned id;
\* the most Runtimes alive at once is counted
InitPeak ==
    /\ \E sc \in Scalars, p \in {"stack", "queue"} : InitWith(sc, {p}, U8_MIN, FALSE)
    /\ alive_max = Some(0)
    /\ NoOtherIds

NextPeak ==
    \/ \E t \in Threads, m \in Modes, p \in pools : Budget(p) /\ Create(t, p, m)
    \/ \E t \in Threads : UnitTryNext(t)
    \/ \E t \in Threads : Load(t)
    \/ \E t \in Threads : Cas(t)
    \/ \E t \in Threads : CasFail(t)
    \/ \E t \in Threads, r \in live : Drop(t, r)

SpecPeak == InitPeak /\ [][NextPeak]_vars

\* threads create and drop instances of a `type T` and of a once type of
\* make_typeid, in a build with std or without
InitTypeids ==
    /\ InitWith("unit", {"none"}, U8_MIN, FALSE)
    /\ alive_max = None
    /\ \E b \in BOOLEAN : InitTypeid(b)
    /\ InitTypeidTl
    /\ InitAllocTl("unit")
    /\ InitLocalPools
    /\ NoGroup

NextTypeid ==
    \/ \E t \in Threads : TypeNew(t)
    \/ \E t \in Threads : TypeInit(t)
    \/ \E t \in Threads : TypeLock(t)
    \/ \E t \in Threads : TypeCas(t)
    \/ \E t \in Threads : TypeWait(t)
    \/ \E t \in Threads : TypeSpurious(t)
    \/ \E t \in Threads : TypeUnlock(t)
    \/ \E t \in Threads : TypeTryNew(t)
    \/ \E t \in Threads : lives.n < MaxLives /\ TypeDrop(t)
    \/ \E t \in Threads : TypeReleaseInit(t)
    \/ \E t \in Threads : TypeNotify(t)
    \/ \E t \in Threads, m \in Modes : OnceCreate(t, m)
    \/ \E t \in Threads : OnceDrop(t)

SpecTypeid == InitTypeids /\ [][NextTypeid]_vars

\* a step of a call of T::new or of a drop that is under way: a thread that
\* runs takes its next step, while nothing makes a thread start a call or a
\* condition variable wake a thread that was not notified
Running(t) ==
    \/ TypeInit(t)
    \/ TypeLock(t)
    \/ TypeCas(t)
    \/ TypeWait(t)
    \/ TypeUnlock(t)
    \/ TypeReleaseInit(t)
    \/ TypeNotify(t)

\* the threads of SpecTypeid, each scheduled again and again
SpecTypeidFair == SpecTypeid /\ \A t \in Threads : WF_vars(Running(t))

\* threads create and drop instances of a `type T` and of a once type of
\* make_typeid_tl
InitTypeidsTl ==
    /\ InitWith("unit", {"none"}, U8_MIN, FALSE)
    /\ alive_max = None
    /\ InitTypeid(FALSE)
    /\ InitTypeidTl
    /\ InitAllocTl("unit")
    /\ InitLocalPools
    /\ NoGroup

NextTypeidTl ==
    \/ \E t \in Threads, m \in Modes : TlCreate(t, m)
    \/ \E t \in Threads : TlDrop(t)
    \/ \E t \in Threads, m \in Modes : TlOnceCreate(t, m)
    \/ \E t \in Threads : TlOnceDrop(t)

SpecTypeidTl == InitTypeidsTl /\ [][NextTypeidTl]_vars

\* threads draw ids from an allocator made by make_global_id_alloc_tl
InitAllocsTl ==
    /\ InitWith("unit", {"none"}, U8_MIN, FALSE)
    /\ alive_max = None
    /\ InitTypeid(FALSE)
    /\ InitTypeidTl
    /\ \E sc \in Scalars : InitAllocTl(sc)
    /\ InitLocalPools
    /\ NoGroup

NextAllocTl ==
    \E t \in Threads, m \in Modes : Len(got[t]) < MaxLocalIds /\ TlAlloc(t, m)

SpecAllocTl == InitAllocsTl /\ [][NextAllocTl]_vars

\* the first id of an allocator over the scalar sc
FirstId(sc) == IF sc = "unit" THEN UnitId ELSE convert(INIT_LOCAL(sc))

\* threads create and drop Runtimes of the global allocator, each with one
\* of the thread_local pools, with one of the global pools or without a
\* pool, and call the pools and the allocator themselves
InitLocalPool ==
    /\ \E sc \in Scalars : InitWith(sc, Pools \cup TlPools, U8_MIN, FALSE)
    /\ alive_max = None
    /\ NoOtherIds

\* a creation that will ask the allocator stays within the ids of the run
BudgetTl(t, p) ==
    IF scalar = "unit" THEN TRUE
    ELSE IF p \in TlPools /\ HoldsTl(with(t), p) THEN TRUE
    ELSE IF p \in Pools /\ Holds(p) THEN TRUE
    ELSE next_id + Cardinality(Allocating) < U8_MIN + MaxTlIds

NextLocalPool ==
    \/ \E t \in Threads, m \in Modes, p \in pools \cap TlPools :
          BudgetTl(t, p) /\ CreateTl(t, p, m)
    \/ \E t \in Threads, m \in Modes, p \in pools \cap Pools :
          BudgetTl(t, p) /\ Create(t, p, m)
    \/ \E t \in Threads, p \in pools \cap TlPools : PoolTakeTl(t, p)
    \/ \E t \in Threads, p \in pools \cap Pools : PoolTake(t, p)
    \/ \E t \in Threads, id \in loose, p \in pools \cap TlPools : PoolTryPutTl(t, p, id)
    \/ \E t \in Threads, id \in loose, p \in pools \cap Pools : PoolTryPut(t, p, id)
    \/ \E id \in loose : IdDrop(id)
    \/ \E t \in Threads, m \in AllocModes : BudgetTl(t, "none") /\ AllocNext(t, m)
    \/ \E t \in Threads : OneRead(t)
    \/ \E t \in Threads : OneFinishTake(t)
    \/ \E t \in Threads : UnitTryNext(t)
    \/ \E t \in Threads : Load(t)
    \/ \E t \in Threads : Cas(t)
    \/ \E t \in Threads : CasFail(t)
    \/ \E t \in Threads, r \in live : r.pool \in Pools /\ Drop(t, r)
    \/ \E t \in Threads, r \in live : r.pool \in TlPools /\ DropTl(t, r)
    \/ \E t \in Threads : OneWrite(t)
    \/ \E t \in Threads : OneFinishInit(t)

SpecLocalPool == InitLocalPool /\ [][NextLocalPool]_vars

\* a test makes a ThreadGroup, spawns threads in it and drops it
InitThreadGroup ==
    /\ InitWith("unit", {"none"}, U8_MIN, FALSE)
    /\ alive_max = None
    /\ InitTypeid(FALSE)
    /\ InitTypeidTl
    /\ InitAllocTl("unit")
    /\ local_stack = [t \in Threads |-> <<>>]
    /\ local_queue = [t \in Threads |-> <<>>]
    /\ local_slot = [t \in Threads |-> None]
    /\ put_by = {}
    /\ InitGroup

NextThreadGroup ==
    \/ GroupSpawn
    \/ GroupDrop
    \/ BarrierOpen
    \/ \E i \in Members : WaitOnDrop_wait(i)
    \/ \E i \in Members : ClosureWait(i)
    \/ WaiterOpen
    \/ \E i \in Members, res \in {"ok", "panic"} : ClosureEnd(i, res)
    \/ \E i \in Members : MemberLock(i)
    \/ \E i \in Members : MemberRecord(i)
    \/ \E i \in Members : MemberNotify(i)
    \/ \E i \in Members : MemberExit(i)
    \/ OwnerLock
    \/ OwnerPass
    \/ OwnerSpurious

SpecThreadGroup == InitThreadGroup /\ [][NextThreadGroup]_vars

\* the number of ids drawn from the counter of the allocator since its
\* initial value
Drawn == IF scalar = "unit" THEN (IF next_id = INIT_ATOMIC(scalar) THEN 0 ELSE 1)
         ELSE next_id - INIT_ATOMIC(scalar)

\* the handles a program can hold: RuntimeHandle is Copy and outlives its
\* Runtime, so those of every Runtime created so far, dropped or not, and
\* that of every id the program drew itself (the field of RuntimeHandle
\* is pub)
HandlesAbout == handles

\* the creations logged so far
Creations == SelectSeq(log, LAMBDA e : e.op = "create")

\* the number of ids of a u8 allocator
NumU8Ids == U8_MAX - U8_MIN

(* ------------------------------- claims --------------------------------- *)
\* C1: no two Runtimes that are alive at the same time hold the same id:
\* they do not compare equal and neither owns a handle of the other
C1_LiveIdsDiffer ==
    \A a, b \in live : a # b =>
        /\ ~runtime_eq(a, b)
        /\ ~owns(a, handle(b))
        /\ ~owns(a, unwrap(b.h))

\* two Runtimes are alive, the younger one with an id from the pool
C1_Witness ==
    /\ Cardinality(live) >= 2
    /\ done.res = "ok" /\ done.src = "pool" /\ done.mode \in Modes

\* C2: a Runtime owns the handle it returned when its life began and the
\* one it returns now, which are the same handle, whatever was created and
\* dropped in between
C2_OwnsOwnHandles ==
    \A r \in live :
        /\ owns(r, handle(r))
        /\ owns(r, unwrap(r.h))
        /\ handle_eq(handle(r), unwrap(r.h))

\* a Runtime is alive since before another Runtime was dropped and a third
\* was created with the id of that one
C2_Witness ==
    /\ done.res = "ok" /\ done.src = "pool" /\ done.mode \in Modes
    /\ \E r \in live : r.id # unwrap(done.id)

\* C3: the handle of a Runtime created without a pool differs from every
\* handle issued before it, of a Runtime that was dropped or not
C3_NoPoolNeverReissues ==
    [][(done'.res = "ok" /\ done'.pool = "none" /\ done'.mode \in Modes) =>
        /\ live' # live
        /\ \A r \in live' \ live : \A h \in used : ~handle_eq(handle(r), h)]_vars

\* the second Runtime of a u8 allocator is created after the first was dropped
C3_Witness ==
    /\ scalar = "u8"
    /\ done.res = "ok" /\ done.pool = "none" /\ done.mode \in Modes
    /\ Cardinality(live) = 1
    /\ Cardinality(handles) = 2
    /\ \A p \in Kept : ret[p] = <<>>

\* C4: a u8 allocator without a pool issues exactly 255 ids: a creation
\* fails only after 255 creations, whose handles are pairwise distinct, and
\* no creation succeeds after them
C4_ExhaustU8 ==
    LET c == Creations IN
    /\ Len(c) <= NumU8Ids
    /\ done.res \in {"None", "panic"} => Len(c) = NumU8Ids
    /\ done.res # "-" =>
          \A i, j \in 1..Len(c) : (i = j) <=> handle_eq(c[i].h, c[j].h)

\* the 256th creation, a try, returned None
C4_Witness == done.res = "None" /\ Len(Creations) = NumU8Ids

\* C5: a call that got no id from the pool and finds the allocator
\* exhausted returns None if it is a try constructor or try_next, and panics
\* if it is one of the others or next, and no Runtime is created
C5_ExhaustedFails ==
    [][\A t \in Threads :
          (pc[t] \in {"try_next", "cas"} /\ Exhausted /\ pc'[t] = "idle") =>
              /\ live' = live
              /\ done'.res = IF loc[t].mode \in {"try", "try_next"} THEN "None"
                             ELSE "panic"]_vars

\* a panicking constructor found no pooled id and the allocator exhausted
C5_Witness ==
    done.res = "panic" /\ done.mode = "panic" /\ done.exhausted /\ ~done.hadId

\* C6: a creation that takes an id from a stack pool gets the id returned
\* to the pool most recently among those still in it
C6_StackFilo ==
    (done.res = "ok" /\ done.src = "pool" /\ done.pool = "stack") =>
        /\ Len(done.from) > 0
        /\ unwrap(done.id) = done.from[Len(done.from)]

\* a creation took an id from a stack pool that held several
C6_Witness ==
    /\ done.res = "ok" /\ done.src = "pool" /\ done.pool = "stack"
    /\ done.mode \in Modes
    /\ Len(done.from) >= 2

\* C7: a creation that takes an id from a queue pool gets the id returned
\* to the pool earliest among those still in it
C7_QueueFifo ==
    (done.res = "ok" /\ done.src = "pool" /\ done.pool = "queue") =>
        /\ Len(done.from) > 0
        /\ unwrap(done.id) = done.from[1]

\* a creation took an id from a queue pool that held several
C7_Witness ==
    /\ done.res = "ok" /\ done.src = "pool" /\ done.pool = "queue"
    /\ done.mode \in Modes
    /\ Len(done.from) >= 2

\* C8: when two Runtimes are dropped one after the other into an empty one
\* pool, the first id is kept and the second is not; the next creation gets
\* the kept id and the creation after it an id from the allocator that is
\* neither of the two
C8_OneKeepsFirst ==
    \A i \in 1..(Len(log) - 1) :
        (/\ log[i].op = "drop" /\ log[i].pool = "one" /\ log[i].pre = EMPTY
         /\ log[i + 1].op = "drop" /\ log[i + 1].pool = "one") =>
            /\ log[i].how = "kept"
            /\ log[i + 1].how = "lost"
            /\ (Len(log) >= i + 2 /\ log[i + 2].op = "create") =>
                  /\ log[i + 2].how = "pool"
                  /\ log[i + 2].id = log[i].id
            /\ (Len(log) >= i + 3 /\ log[i + 2].op = "create" /\ log[i + 3].op = "create") =>
                  /\ log[i + 3].how = "alloc"
                  /\ ~handle_eq(log[i + 3].h, log[i].h)
                  /\ ~handle_eq(log[i + 3].h, log[i + 1].h)

\* two creations, two drops into the empty one pool, two creations
C8_Witness ==
    /\ pools = {"one"} /\ Len(log) = 6
    /\ log[1].op = "create" /\ log[2].op = "create"
    /\ log[3].op = "drop" /\ log[3].pre = EMPTY /\ log[4].op = "drop"
    /\ log[5].op = "create" /\ log[6].op = "create"

\* C9: a creation asks the allocator only when its pool held no id for it,
\* and a creation that got its id from the pool has not touched the counter
C9_PoolBeforeAlloc ==
    [][/\ \A t \in Threads :
            /\ (pc[t] = "idle" /\ pc'[t] = "try_next" /\ loc'[t].mode \in Modes) =>
                  ~Holds(loc'[t].pool)
            /\ pc[t] \in {"read", "finish_take"} =>
                  /\ pc'[t] \in {"read", "finish_take", "idle"}
                  /\ pc'[t] # pc[t] => next_id' = next_id
       /\ (done'.res = "ok" /\ done'.src = "pool") =>
             /\ next_id' = next_id
             /\ ~done'.asked]_vars

\* a creation got its id from the pool although the allocator had ids left
C9_Witness ==
    /\ done.res = "ok" /\ done.src = "pool" /\ done.mode \in Modes
    /\ ~done.asked /\ ~Exhausted

\* C10: a try constructor returns None only if the pool held no id and the
\* allocator is exhausted; with an exhausted allocator and an id in the
\* pool the creation succeeds with a pooled id
C10_NoneOnlyIfBoth ==
    /\ (done.res = "None" /\ done.mode = "try") => (~done.hadId /\ done.exhausted)
    /\ (done.res # "-" /\ done.mode \in Modes /\ done.hadId /\ done.exhTake) =>
          (done.res = "ok" /\ done.src = "pool")

\* a try constructor got a pooled id while the allocator was exhausted
C10_Witness ==
    /\ done.res = "ok" /\ done.src = "pool" /\ done.mode = "try"
    /\ done.hadId /\ done.exhTake

\* C11: with a stack or queue pool, the number of distinct ids drawn from
\* the counter of the allocator never exceeds the largest number of
\* Runtimes that were alive at the same time, and every id drawn is the
\* id of a Runtime that was created
C11_DrawnAtMostPeak ==
    (pools \subseteq {"stack", "queue"} /\ is_some(alive_max)) =>
        /\ Drawn <= unwrap(alive_max)
        /\ Cardinality(used) = Drawn

\* as many ids were drawn as Runtimes were alive at once, and a later
\* creation reused one of them
C11_Witness ==
    /\ pools \subseteq {"stack", "queue"} /\ is_some(alive_max)
    /\ Drawn >= 2 /\ Drawn = unwrap(alive_max)
    /\ done.res = "ok" /\ done.src = "pool"

\* C12: for a `type T` of make_typeid at most one instance of Type<T>
\* exists at any time, held or on its way out of T::new, whatever the
\* threads call and drop
C12_AtMostOneType == Instances + Cardinality(Returning) <= 1

\* a thread holds the instance and the try_new of another thread was refused
C12_Witness ==
    /\ Instances = 1
    /\ tdone.op = "type" /\ tdone.mode = "try" /\ tdone.res = "None"
    /\ held[unwrap(tdone.t)] = 0

\* C13: T::try_new returns None if an instance of Type<T> exists when it is
\* called and an instance if none exists, and it never waits: an idle
\* thread can always make the call, which ends in the step that begins it
C13_TryNewNoneIffExists ==
    [][\A t \in Threads :
          /\ tpc[t] = "idle" => ENABLED TypeTryNew(t)
          /\ (tdone'.op = "type" /\ tdone'.mode = "try" /\ tdone'.t = Some(t)) =>
                /\ tpc[t] = "idle" /\ tpc'[t] = "idle"
                /\ IF Exists
                   THEN tdone'.res = "None" /\ held' = held
                   ELSE tdone'.res = "ok" /\ held'[t] = held[t] + 1]_vars

\* a try_new returned None to the thread that holds the instance itself
C13_Witness ==
    /\ tdone.op = "type" /\ tdone.mode = "try" /\ tdone.res = "None"
    /\ tdone.existed
    /\ held[unwrap(tdone.t)] = 1

\* C14: T::new panics if an instance of Type<T> exists when it is called,
\* and returns a new instance otherwise: no call of T::new is left waiting
C14_NewPanicsIfExists ==
    /\ \A t \in Threads : tpc[t] \in {"idle", "release", "notify"}
    /\ (tdone.op = "type" /\ tdone.mode = "panic") =>
          tdone.res = IF tdone.existed THEN "panic" ELSE "ok"

\* C15: once the instance of Type<T> was dropped and no other creation has
\* come since, the flag is as it was made, and a try_new then returns a
\* new instance; so after every drop
C15_NewAfterDrop ==
    [][lives.dropped =>
          /\ Released
          /\ \A t \in Threads :
                (tdone'.op = "type" /\ tdone'.mode = "try" /\ tdone'.t = Some(t)) =>
                    /\ tdone'.res = "ok"
                    /\ held'[t] = held[t] + 1
                    /\ ~lives'.dropped]_vars

\* a try_new returned an instance after the second drop
C15_Witness ==
    /\ tdone.op = "type" /\ tdone.mode = "try" /\ tdone.res = "ok"
    /\ tdone.after_drop
    /\ lives.n >= 2

\* C16: a once type of make_typeid gives out an instance at most once: a
\* call succeeds if and only if none has succeeded before, also when the
\* instance has been dropped since
C16_OnceAtMostOnce ==
    [][/\ made_once' <= 1
       /\ tdone'.op = "once" =>
             tdone'.res = IF made_once = 0 THEN "ok"
                          ELSE IF tdone'.mode = "try" THEN "None" ELSE "panic"]_vars

\* a try_new of the once type returned None after the only instance was
\* dropped
C16_Witness ==
    /\ tdone.op = "once" /\ tdone.mode = "try" /\ tdone.res = "None"
    /\ made_once = 1
    /\ ~tdone.existed

\* C17: for a `type T` of make_typeid_tl a thread holds at most one
\* instance of Type<T>, and a creation succeeds exactly when the calling
\* thread holds none, whatever the other threads hold
C17_OnePerThread ==
    [][/\ \A t \in Threads : tl_held'[t] <= 1
       /\ \A t \in Threads :
             (tl_done'.op = "type" /\ tl_done'.t = Some(t)) =>
                 IF tl_held[t] = 0
                 THEN tl_done'.res = "ok" /\ tl_held'[t] = 1
                 ELSE tl_done'.res # "ok" /\ tl_held' = tl_held]_vars

\* a thread got its instance while another thread held one, and both
\* hold theirs
C17_Witness ==
    /\ tl_done.op = "type" /\ tl_done.res = "ok"
    /\ \A t \in Threads : tl_held[t] = 1

\* C18: the drop of the Type<T> of make_typeid_tl makes the flag of the
\* dropping thread as new and changes the flag of no other thread, and the
\* next creation of that thread succeeds; a once type gives each thread an
\* instance at most once, also after the instance has been dropped
C18_DropReenablesOwnThread ==
    [][\A t \in Threads :
          /\ (tl_done'.op = "drop" /\ tl_done'.t = Some(t)) =>
                /\ tl_flag'[t] = LocalOnceFlag_new
                /\ \A u \in Threads \ {t} :
                      tl_flag'[u] = tl_flag[u] /\ tl_held'[u] = tl_held[u]
          /\ (tl_dropped[t] /\ tl_done'.op = "type" /\ tl_done'.t = Some(t)) =>
                tl_done'.res = "ok"
          /\ tl_made_once'[t] <= 1
          /\ (tl_done'.op = "once" /\ tl_done'.t = Some(t)) =>
                (tl_done'.res = "ok" <=> tl_made_once[t] = 0)]_vars

\* a thread created its Type<T> again after the drop while another thread
\* kept its instance, and the once type of the thread stays used up after
\* its instance was dropped
C18_Witness ==
    /\ tl_done.op = "type" /\ tl_done.res = "ok" /\ tl_done.after_drop
    /\ \E u \in Threads \ {unwrap(tl_done.t)} : tl_held[u] = 1 /\ ~tl_flag[u]
    /\ LET t == unwrap(tl_done.t) IN
       tl_made_once[t] = 1 /\ tl_held_once[t] = 0 /\ ~tl_once[t]

\* C19: every id that the global allocator hands out differs from every
\* id it handed out before, to whatever thread and in whatever order the
\* threads load and compare-exchange the counter
C19_AllocIdsDiffer ==
    [][(done'.res = "ok" /\ done'.src = "alloc") =>
          /\ unwrap(done'.id) \notin used
          /\ Cardinality(used') = Cardinality(used) + 1]_vars

\* a thread got the counter value that another thread had loaded too and
\* still holds
C19_Witness ==
    /\ scalar = "u8"
    /\ done.res = "ok" /\ done.src = "alloc"
    /\ \E u \in Threads : pc[u] = "cas" /\ loc[u].value = Some(unwrap(done.id))

\* C20: the ids a thread receives from a thread-local allocator are
\* pairwise different, and every thread receives the same sequence of ids,
\* which starts at the allocator's initial value
C20_LocalIdsPerThread ==
    /\ \A t \in Threads : \A i, j \in 1..Len(got[t]) :
          i # j => got[t][i] # got[t][j]
    /\ \A t \in Threads : Len(got[t]) > 0 => got[t][1] = FirstId(local_scalar)
    /\ \A t, u \in Threads : \A i \in 1..Len(got[t]) :
          i <= Len(got[u]) => got[t][i] = got[u][i]

\* two threads have each received the same several ids
C20_Witness ==
    /\ al_done.res = "ok"
    /\ \E t, u \in Threads :
          t # u /\ got[t] = got[u] /\ Len(got[t]) >= 2

\* C21: a Runtime owns a handle exactly when the handle equals its own, so
\* handles that compare equal are treated alike by every Runtime; and a
\* Runtime created with an id from the pool owns the handle of the dropped
\* Runtime that held the id before, which no other Runtime owns
C21_RecycledOwnsOld ==
    [][/\ \A r \in live', h \in HandlesAbout' :
             /\ owns(r, h) <=> handle_eq(h, handle(r))
             /\ \A g \in HandlesAbout' :
                   handle_eq(g, h) => (owns(r, g) <=> owns(r, h))
       /\ (done'.res = "ok" /\ done'.src = "pool") =>
             \A r \in live' \ live :
                 \E h \in used :
                     /\ handle_eq(h, unwrap(done'.id))
                     /\ owns(r, h)
                     /\ \A r0 \in live : ~owns(r0, h)]_vars

\* a Runtime was created with the id of a dropped Runtime while another
\* Runtime, of which a handle was taken, is alive
C21_Witness ==
    /\ scalar = "u8"
    /\ done.res = "ok" /\ done.src = "pool" /\ done.mode \in Modes
    /\ \E r \in live : unwrap(r.h) # unwrap(done.id)

\* C22, the part that a run of the program shows: every id in the
\* thread_local pool of a thread was returned by that thread, and a creation
\* that takes an id from a thread_local pool gets an id that the creating
\* thread returned itself, and that was in no pool of another thread. That a
\* Runtime with a thread_local pool cannot be sent to or shared with another
\* thread is decided by the compiler (the pool type holds
\* PhantomData<ThreadLocal>) and is no property of a run: DropTl takes it as
\* its guard
C22_LocalPoolOwnThread ==
    [][/\ \A t \in Threads, p \in TlPools :
             \A id \in PooledTl(t, p)' : <<id, t>> \in put_by'
       /\ (done'.res = "ok" /\ done'.src = "pool" /\ done'.pool \in TlPools) =>
             \A r \in live' \ live :
                 /\ is_some(r.home)
                 /\ <<r.id, unwrap(r.home)>> \in put_by
                 /\ r.id \in PooledTl(unwrap(r.home), r.pool)
                 /\ \A u \in Threads \ {unwrap(r.home)}, p \in TlPools :
                       ~(r.id \in PooledTl(u, p))]_vars

\* a thread took an id from its thread_local pool while the pool of
\* another thread held an id
C22_Witness ==
    /\ scalar = "u8"
    /\ done.res = "ok" /\ done.src = "pool" /\ done.mode \in Modes
    /\ done.pool \in TlPools
    /\ \E r \in live :
          /\ r.id = unwrap(done.id)
          /\ \E u \in Threads \ {unwrap(r.home)} : HoldsTl(u, done.pool)

\* thread t is inside the loop of acquire(), in a T::new() that found the
\* flag locked
Blocked(t) == tpc[t] \in {"init", "lock", "cas", "wait", "waiting", "woken"}

\* the release of the holder is over: the flag is unlocked and no
\* notify_one is still to come
ReleaseOver == std /\ ~locked /\ \A u \in Threads : tpc[u] \notin {"release", "notify"}

\* a thread other than t has acquired the flag
AcquiredByOther(t) == \E u \in Threads \ {t} : held[u] > 0 \/ tpc[u] = "unlock"

\* C24: with std, a thread blocked in T::new() obtains the instance after
\* the holder has dropped Type<T>, unless another thread acquires the flag
\* in between: the release is not lost by a waiter that saw the flag locked
\* and had not yet started to wait on the condition variable
C24_BlockedObtainsAfterRelease ==
    \A t \in Threads :
        (Blocked(t) /\ ReleaseOver) ~> (~Blocked(t) \/ AcquiredByOther(t))

\* C25: with std, `locked` is true exactly while an instance of Type<T> is
\* held, from the acquire that succeeded to the release of its drop; a
\* try_acquire that fails and the first swap of an acquire that blocks leave
\* it true, and only the release of a holder makes it false
C25_LockedWhileHeld ==
    [][std' =>
          /\ locked' <=> Exists'
          /\ (locked /\ ~locked') =>
                 /\ tdone'.op = "drop"
                 /\ \E t \in Threads : tdone'.t = Some(t) /\ held[t] > 0
          /\ (tdone'.op = "type" /\ tdone'.res = "None") => (locked /\ locked')
          /\ \A t \in Threads :
                 (tpc[t] = "idle" /\ tpc'[t] = "init") => (locked /\ locked')]_vars

\* a thread waits for the instance that another thread got after a drop
C25_Witness ==
    /\ std
    /\ locked
    /\ lives.n > 0
    /\ \E t \in Threads : tpc[t] = "wait" /\ \E u \in Threads \ {t} : held[u] > 0

\* the threads inside try_put_mut of the one pool, between start_init and
\* finish_init
Writers == {t \in Threads : pc[t] \in {"write", "finish_init"}}

\* the threads inside take_mut of the one pool, between start_take and
\* finish_take
Readers == {t \in Threads : pc[t] \in {"read", "finish_take"}}

\* the steps of the flag of the one pool
FlagCycle == {<<EMPTY, WRITING>>, <<WRITING, FULL>>, <<FULL, READING>>, <<READING, EMPTY>>}

\* C26: in the global one pool the flag moves only along
\* 0b00 -> 0b10 -> 0b11 -> 0b01 -> 0b00; at most one thread is between a
\* start and its finish, the flag is 0b10 exactly while a thread writes and
\* 0b01 exactly while a thread reads; the slot is written only by that
\* writer and read only by that reader, after it was written
C26_OneSlotExclusive ==
    [][/\ flag' # flag => <<flag, flag'>> \in FlagCycle
       /\ Cardinality(Writers' \cup Readers') <= 1
       /\ flag' = WRITING <=> Writers' # {}
       /\ flag' = READING <=> Readers' # {}
       /\ slot' # slot =>
             \E t \in Threads :
                 Writers = {t} /\ pc[t] = "write" /\ pc'[t] = "finish_init"
       /\ \A t \in Threads :
             (pc[t] = "read" /\ pc'[t] # "read") =>
                 /\ Readers = {t} /\ Writers = {}
                 /\ is_some(slot)
                 /\ loc'[t].item = slot]_vars

\* a thread writes the slot while a creation of another thread, which got
\* nothing from the one pool, is on its way to the allocator
C26_Witness ==
    /\ scalar = "u8"
    /\ \E t \in Threads :
          /\ pc[t] = "finish_init"
          /\ \E u \in Threads \ {t} : pc[u] = "try_next" /\ loc[u].pool = "one"

\* C27: a take of the global one pool that returns an id returns the id
\* of the latest try_put that succeeded, which is in the slot; the id was
\* issued before, no Runtime alive holds it, and the take leaves the pool
\* without it, so that no second take returns it
C27_OneTakesLastPut ==
    [][/\ Len(ret'["one"]) <= 1
       /\ (done'.res = "ok" /\ done'.src = "pool" /\ done'.pool = "one") =>
             LET id == unwrap(done'.id) IN
             /\ ret["one"] = <<id>>
             /\ slot = Some(id)
             /\ ret'["one"] = <<>>
             /\ flag' = EMPTY
             /\ id \in used
             /\ \A r \in live : r.id # id
             /\ id \notin loose
             /\ \A t \in Threads : pc'[t] \notin {"read", "finish_take"}]_vars

\* a take returned the id while a creation of another thread, which got
\* nothing from the one pool, is on its way to the allocator
C27_Witness ==
    /\ scalar = "u8"
    /\ done.res = "ok" /\ done.src = "pool" /\ done.pool = "one"
    /\ \E u \in Threads : pc[u] \in {"try_next", "cas"} /\ loc[u].pool = "one"

\* C28: a try_put that finds the flag of the one pool not at 0b00 returns
\* Err with the id it was given, and a take that finds the flag not at 0b11
\* returns None; both end in their first step and leave the flag, the slot
\* and the pooled id as they are; an idle thread can always make either call
C28_OneFailsClean ==
    [][/\ \A r \in live :
             (r.pool = "one" /\ live' = live \ {r} /\ flag # EMPTY) =>
                 done'.res = "Err" /\ done'.id = Some(r.id)
       /\ (done'.res = "Err" /\ done'.pool = "one") =>
             /\ flag # EMPTY
             /\ flag' = flag /\ slot' = slot /\ ret' = ret /\ pc' = pc
             /\ loose' = loose
             /\ \/ \E r \in live : /\ r.pool = "one" /\ live' = live \ {r}
                                   /\ done'.id = Some(r.id)
                \/ live' = live /\ unwrap(done'.id) \in loose
       /\ (done'.res = "None" /\ done'.mode = "take" /\ done'.pool = "one") =>
             /\ flag # FULL
             /\ flag' = flag /\ slot' = slot /\ ret' = ret /\ pc' = pc
             /\ live' = live /\ loose' = loose
       /\ \A t \in Threads :
             /\ (pc[t] = "idle" /\ pc'[t] = "try_next" /\ loc'[t].pool = "one") =>
                   flag # FULL /\ flag' = flag /\ slot' = slot /\ ret' = ret
             /\ (pc[t] = "idle" /\ flag # FULL) => pc'[t] # "read"
             /\ (pc[t] = "idle" /\ flag # EMPTY) => pc'[t] # "write"
             /\ pc[t] = "idle" =>
                   /\ ENABLED Create(t, "one", "try")
                   /\ ENABLED PoolTake(t, "one")
                   /\ \A r \in live : ENABLED Drop(t, r)
                   /\ \A id \in loose : ENABLED PoolTryPut(t, "one", id)]_vars

\* a try_put got Err while another thread was reading the slot
C28_Witness ==
    /\ scalar = "u8"
    /\ done.res = "Err" /\ done.pool = "one"
    /\ flag = READING
    /\ \E t \in Threads : pc[t] = "finish_take" /\ loc[t].item # done.id

\* C29: the counter of the allocator moves only in the step that issues an
\* id, and then to the value that follows the id issued: it never wraps and
\* never skips; a try_next that fails finds the allocator exhausted and
\* leaves the counter as it is, and an exhausted allocator stays exhausted,
\* so that every later try_next fails too
C29_CounterUpByOne ==
    [][/\ next_id' # next_id =>
             /\ done'.res = "ok" /\ done'.src = "alloc"
             /\ IF scalar = "unit"
                THEN next_id /\ ~next_id' /\ done'.id = Some(UnitId)
                ELSE /\ next_id' = next_id + 1
                     /\ next_id' <= U8_MAX
                     /\ done'.id = Some(convert(next_id))
       /\ (done'.res = "ok" /\ done'.src = "alloc") => next_id' # next_id
       /\ (done'.res \in {"None", "panic"} /\ done'.asked) =>
             (Exhausted /\ next_id' = next_id)
       /\ Exhausted =>
             /\ Exhausted'
             /\ ~(done'.res = "ok" /\ done'.src = "alloc")]_vars

\* a try_next returned None at the counter's last value while another
\* call is on its way to the allocator
C29_Witness ==
    /\ scalar = "u8" /\ next_id = U8_MAX
    /\ done.res = "None" /\ done.exhausted /\ done.asked
    /\ \E u \in Threads : pc[u] \in {"try_next", "cas"}

\* C30: the drop of a ThreadGroup returns only when the closure of every
\* thread of the group has ended, and never when one of them panicked; and
\* a turn of the loop of the drop finds Done only in the entries of
\* threads that have stored their ThreadInfo
C30_DropWaitsForAll ==
    /\ tg_drop = "returned" =>
          \A i \in Members : tg_pc[i] \in Finished /\ tg_out[i] = "ok"
    /\ tg_drop = "loop" =>
          \A i \in 1..Len(tg_threads) :
              tg_threads[i] = "Done" => tg_pc[i] \in Recorded

TypeOK ==
    /\ flag \in {EMPTY, READING, WRITING, FULL}
    /\ loose \subseteq used
    /\ handles \subseteq used
    /\ \A r \in live : r.id \in handles /\ r.pool \in pools
    /\ \A t \in Threads : pc[t] \in {"idle", "try_next", "cas", "read", "finish_take", "write", "finish_init"}
====
